---- MODULE Spec2Model ----
(***************************************************************************)
(* Crawl core of deepweb-proxy (src/mcp_engine.py, class AIResearchCrawler) *)
(*                                                                         *)
(*   SpecSelect  get_appropriate_session as a function of the URL and the   *)
(*               three flags it reads                                       *)
(*   SpecSite    one invocation of _crawl_single_site over a small web      *)
(*   Spec        one cycle of crawl_sites: batches, site workers, retry     *)
(*               rounds                                                     *)
(*   SpecBatches a cycle over a sites file longer than one batch            *)
(*   SpecMedia   invocations of _download_and_store_media_parallel          *)
(*   SpecMain    main(): construction of the crawler, the crawl cycle, an   *)
(*               interrupt, the end of the process                          *)
(*   SpecRouter  the I2P router management of __init__                      *)
(*   SpecCategorize  _categorize_media_type on any URL and Content-Type     *)
(*   SpecFaults  one invocation of _crawl_single_site in which commits and  *)
(*               the link extraction may raise                              *)
(*   SpecLinks   _extract_links_from_page on any set of anchors             *)
(*   SpecRace    concurrent calls of get_or_create_site                     *)
(*   SpecBatchesFair  a cycle of crawl_sites under weak fairness            *)
(*   SpecGraph   one invocation of _crawl_single_site over a fixed link     *)
(*               graph                                                      *)
(***************************************************************************)
EXTENDS Integers, Sequences, FiniteSets, Bags, TLC

----------------------------------------------------------------------------
(* Bounds of the model *)

\* longest hostname, in labels, that SpecSelect enumerates
MaxLabels == 2

\* configuration (environment variables of mcp_engine.py), kept small
CRAWL_DEPTH == 1
MAX_PAGES_PER_SITE == 2
PARALLEL_SITES == 2

\* longest sites file, in lines
MaxLines == 2

(* Program constants *)

\* max_retries of crawl_sites
max_retries == 10

\* hours between two cycles; the clock of the model counts hours
RESEARCH_FREQUENCY_HOURS == 24

\* mcp_engine.py 172-174: the size caps of the media categories, in bytes
MAX_IMAGE_SIZE == 10485760
MAX_AUDIO_SIZE == 10485760
MAX_VIDEO_SIZE == 52428800

\* mcp_engine.py 1139: content longer than this is not kept in the database row
INLINE_LIMIT == 1048576

\* the invocations of the media pipeline that SpecMedia follows
MaxCalls == 2

----------------------------------------------------------------------------
(* URLs.  A URL is a record scheme / host / port / path; host is the       *)
(* sequence of its dot-separated labels, port 0 stands for "no port".       *)

Labels == {"a", "onion", "i2p", "Onion"}

Schemes == {"http", "https"}

\* str.lower() on one label
Lower(label) == IF label = "Onion" THEN "onion" ELSE label

\* urlparse(url).hostname: the host without the port, lower-cased
hostname(url) == [i \in 1..Len(url.host) |-> Lower(url.host[i])]

\* "<l1>.<l2>...<ln>".endswith("." + tld): the last label is tld and a dot,
\* hence another label, precedes it
endswith(labels, tld) == Len(labels) >= 2 /\ labels[Len(labels)] = tld

----------------------------------------------------------------------------
(* Transport selection *)

\* hasattr(self, 'tor_session') / hasattr(self, 'i2p_session'):
\* _setup_proxy_sessions creates each session exactly when its flag is set
has_tor_session(enable_tor) == enable_tor
has_i2p_session(enable_i2p) == enable_i2p

\* the .i2p branch with the health flag dropped
i2p_branch_ignoring_health(enable_tor, enable_i2p, healthy) ==
    IF enable_i2p /\ has_i2p_session(enable_i2p) THEN "i2p"
    ELSE IF enable_tor /\ has_tor_session(enable_tor) THEN "tor"
    ELSE "none"

\* mcp_engine.py 686-695
i2p_branch(enable_tor, enable_i2p, healthy) ==
    IF enable_i2p /\ has_i2p_session(enable_i2p) /\ healthy THEN "i2p"
    ELSE IF enable_tor /\ has_tor_session(enable_tor) THEN "tor"
    ELSE "none"

\* get_appropriate_session(url): the kind of the session returned,
\* "none" for (None, None)
get_appropriate_session(url, enable_tor, enable_i2p, healthy) ==
    LET domain == hostname(url) IN
    IF endswith(domain, "onion")
    THEN IF enable_tor /\ has_tor_session(enable_tor) THEN "tor" ELSE "none"
    ELSE IF endswith(domain, "i2p")
    THEN i2p_branch(enable_tor, enable_i2p, healthy)
    ELSE IF enable_tor /\ has_tor_session(enable_tor) THEN "tor" ELSE "none"

----------------------------------------------------------------------------
(* The web the crawler sees *)

Url(scheme, host, path) == [scheme |-> scheme, host |-> host, port |-> 0, path |-> path]

A0 == Url("http", <<"a", "test">>, "/")
A1 == Url("http", <<"a", "test">>, "/a")
I0 == Url("http", <<"y", "i2p">>, "/")
B0 == Url("https", <<"other", "test">>, "/b")

\* what an <a href> may hold: a path relative to the page, an absolute URL,
\* a mailto: address
Rel(path) == Url("", <<>>, path)
Mailto == Url("mailto", <<>>, "x")
Hrefs == {Rel("/"), Rel("/a"), B0, Mailto}

Hosts == {<<"a", "test">>, <<"y", "i2p">>, <<"other", "test">>}
Paths == {"/", "/a", "/b"}
Urls == {Url(s, h, p) : s \in Schemes, h \in Hosts, p \in Paths}

\* the sites a sites file may name
SiteUrls == {A0, I0}

\* hrefs that are no reference to another document: href="", href="#top",
\* href="javascript:void(0)", href="tel:5550100"
EmptyHref == Url("", <<>>, "")
FragmentHref == Url("", <<>>, "#top")
Javascript == Url("javascript", <<>>, "void(0)")
Tel == Url("tel", <<>>, "5550100")

\* the text of a path followed by "#top"
with_fragment(path) ==
    IF path = "/" THEN "/#top"
    ELSE IF path = "/a" THEN "/a#top"
    ELSE IF path = "/b" THEN "/b#top"
    ELSE path

\* the text of a URL up to its fragment
without_fragment(url) ==
    [url EXCEPT !.path = IF @ = "/#top" THEN "/"
                         ELSE IF @ = "/a#top" THEN "/a"
                         ELSE IF @ = "/b#top" THEN "/b"
                         ELSE @]

\* urllib.parse.urljoin(base_url, href) for these forms of href: an href with
\* a scheme is the result; an empty href gives the base; a fragment is put
\* after the base; a path replaces the path of the base
urljoin(base_url, href) ==
    IF href.scheme # "" THEN href
    ELSE IF href = EmptyHref THEN base_url
    ELSE IF href = FragmentHref THEN [base_url EXCEPT !.path = with_fragment(@)]
    ELSE [base_url EXCEPT !.path = href.path]

\* full_url.startswith(('http://', 'https://'))
is_http(url) == url.scheme \in {"http", "https"}

\* _extract_links_from_page with the filter dropped
extract_links_unfiltered(hrefs, base_url) == {urljoin(base_url, h) : h \in hrefs}

\* _extract_links_from_page(soup, base_url) as a set: the hrefs of the page's
\* anchors, resolved and filtered.  The code returns list(set(links)), whose
\* order is the set's iteration order: the caller draws it from Orders.
extract_links_from_page(hrefs, base_url) ==
    {u \in {urljoin(base_url, h) : h \in hrefs} : is_http(u)}

\* the lists without repetition that enumerate a set
Orders(S) ==
    {f \in [1..Cardinality(S) -> S] : \A x \in S : \E j \in 1..Cardinality(S) : f[j] = x}

Range(s) == {s[j] : j \in DOMAIN s}
Occurrences(s, x) == Cardinality({j \in DOMAIN s : s[j] = x})

\* a server's possible answers to the GET of a page: an error (timeout, refused,
\* HTTP error status) or a document with some anchors
ErrorResponse == [ok |-> FALSE, hrefs |-> {}, srcs |-> {}]
\* every document shows one JPEG image, <img src="/pic.jpg">
Images == {Rel("/pic.jpg")}
Document(hrefs) == [ok |-> TRUE, hrefs |-> hrefs, srcs |-> Images]

----------------------------------------------------------------------------
(* _download_and_store_media_parallel and its helpers *)

\* the text of a path, cut into names and dotted suffixes
pieces(path) ==
    IF path = "/pic.jpg" THEN <<"/pic", ".jpg">>
    ELSE IF path = "/movie.mp4" THEN <<"/movie", ".mp4">>
    ELSE IF path = "/song.mp3" THEN <<"/song", ".mp3">>
    ELSE IF path = "/paper.pdf" THEN <<"/paper", ".pdf">>
    ELSE IF path = "/PIC.JPG" THEN <<"/PIC", ".JPG">>
    ELSE IF path = "/pic.jpg/view.html" THEN <<"/pic", ".jpg", "/view", ".html">>
    ELSE IF path = "/clip.mp4/poster.png" THEN <<"/clip", ".mp4", "/poster", ".png">>
    ELSE <<path>>

Suffixes == {".jpg", ".mp4", ".mp3", ".pdf", ".JPG", ".html", ".png"}

\* os.path.splitext(urlparse(media_url).path)[1]: the dotted suffix that ends
\* the path, as it is written
extension(url) ==
    LET p == pieces(url.path) IN
    IF Len(p) >= 2 /\ p[Len(p)] \in Suffixes THEN p[Len(p)] ELSE ""

\* str.lower() on a piece
lower_piece(piece) ==
    IF piece = ".JPG" THEN ".jpg" ELSE IF piece = "/PIC" THEN "/pic" ELSE piece

\* url.lower(), as the pieces of its path (scheme and hostname of the URLs
\* here hold none of the listed extensions)
url_lower(url) == LET p == pieces(url.path) IN [j \in 1..Len(p) |-> lower_piece(p[j])]

\* any(ext in url_lower for ext in exts)
any_ext_in(text, exts) == \E j \in DOMAIN text : text[j] \in exts

\* mcp_engine.py 1326, 1330, 1334: the three lists
image_exts == {".jpg", ".jpeg", ".png", ".gif", ".bmp", ".webp", ".svg"}
video_exts == {".mp4", ".avi", ".mov", ".wmv", ".flv", ".webm", ".mkv"}
audio_exts == {".mp3", ".wav", ".ogg", ".m4a", ".flac", ".aac"}

\* content_type.startswith(prefix), for the content types used here; an
\* absent header is ""
startswith(content_type, prefix) ==
    \/ prefix = "image/" /\ content_type \in {"image/jpeg", "image/png"}
    \/ prefix = "video/" /\ content_type = "video/mp4"
    \/ prefix = "audio/" /\ content_type = "audio/mpeg"

\* mcp_engine.py 1321-1346: the extensions are looked for anywhere in the
\* URL, images first; then the content type decides
categorize_media_type(url, content_type) ==
    IF any_ext_in(url_lower(url), image_exts) THEN "image"
    ELSE IF any_ext_in(url_lower(url), video_exts) THEN "video"
    ELSE IF any_ext_in(url_lower(url), audio_exts) THEN "audio"
    ELSE IF startswith(content_type, "image/") THEN "image"
    ELSE IF startswith(content_type, "video/") THEN "video"
    ELSE IF startswith(content_type, "audio/") THEN "audio"
    ELSE "other"

\* mcp_engine.py 1348-1357
get_size_limit_for_media_type(media_type) ==
    IF media_type = "image" THEN MAX_IMAGE_SIZE
    ELSE IF media_type = "audio" THEN MAX_AUDIO_SIZE
    ELSE IF media_type = "video" THEN MAX_VIDEO_SIZE
    ELSE MAX_IMAGE_SIZE

\* mcp_engine.py 1359-1368
get_minio_bucket_for_media_type(media_type) ==
    IF media_type = "image" THEN "crawler-images"
    ELSE IF media_type = "audio" THEN "crawler-audio"
    ELSE IF media_type = "video" THEN "crawler-videos"
    ELSE "crawler-other"

\* mcp_engine.py 1370-1384: f"page_{page_id}/{timestamp}_{url_hash}{extension}";
\* the MD5 of the URL is told apart by the URL it is the hash of
generate_minio_object_name(media_url, page_id, timestamp) ==
    [page |-> page_id, timestamp |-> timestamp, url_hash |-> media_url,
     extension |-> extension(media_url)]

\* the answer of the outside world to one invocation: the GET, the headers
\* and body of the response, the object store, the database
NoLength == [present |-> FALSE, value |-> 0]
Length(n) == [present |-> TRUE, value |-> n]
MediaResponse(get_ok, content_type, content_length, body, bucket_ok, put_ok, insert, retry_ok) ==
    [get_ok |-> get_ok, content_type |-> content_type, content_length |-> content_length,
     body |-> body, bucket_ok |-> bucket_ok, put_ok |-> put_ok, insert |-> insert,
     retry_ok |-> retry_ok]

\* the size tests with the test of the streamed bytes left out
size_refused_by_header_only(content_length, body, size_limit) ==
    content_length.present /\ content_length.value > size_limit

\* mcp_engine.py 1085, 1093-1101: the advertised length, then the bytes read
size_refused(content_length, body, size_limit) ==
    \/ content_length.present /\ content_length.value > size_limit
    \/ body > size_limit

\* the content kept in the row whatever its length
content_for_db_always(body) == "bytes"

\* mcp_engine.py 1139: None if len(content) > 1048576 else content
content_for_db(body) == IF body > INLINE_LIMIT THEN "null" ELSE "bytes"

\* the existence test that never finds a row
media_exists_never(rows, page_id, media_url) == FALSE

\* mcp_engine.py 1054: the row of this page and URL, if any
media_exists(rows, page_id, media_url) ==
    \E row \in BagToSet(rows) : row.page_id = page_id /\ row.url = media_url

\* put_object: the object of that bucket and name is replaced
put_object(objs, bucket, name, size) ==
    {o \in objs : ~(o.bucket = bucket /\ o.name = name)}
        \cup {[bucket |-> bucket, name |-> name, size |-> size]}

MediaFileRow(page_id, media_url, resp, content, bucket, name) ==
    [page_id |-> page_id, url |-> media_url, file_type |-> resp.content_type,
     content |-> content, size_bytes |-> resp.body,
     media_category |-> categorize_media_type(media_url, resp.content_type),
     minio_bucket |-> bucket, minio_object_name |-> name]

\* a failed upload that is followed by the insert all the same
after_put_failure_insert(rows, row) == rows (+) SetToBag({row})

\* what is left after a failed upload: nothing is inserted
after_put_failure(rows, row) == rows

\* the retry taken after any failure of the insert
retry_without_content_always(db_error, content) == content # "null"

\* mcp_engine.py 1171: "Data too long" in str(db_error) and content_for_db is
\* not None
retry_without_content(db_error, content) == db_error = "too_long" /\ content # "null"

\* db_session.add: the row is pending in the session
session_add(pending, row) == pending \cup {row}

\* db_session.rollback: the session has no pending changes
session_rollback(pending) == {}

\* mcp_engine.py 1144-1199: add and commit, and the retry; what the commits
\* answered is resp.insert and resp.retry_ok.  attempts: the content of the
\* rows whose insert was attempted, in order; pending: the rows left pending
\* in the session; row: the row to insert, per content
save_to_database(resp, rows, content, row) ==
    LET first == session_add({}, row[content]) IN
    IF resp.insert = "ok"
    THEN [result |-> TRUE, rows |-> rows (+) SetToBag(first), pending |-> {},
          attempts |-> <<content>>, effects |-> <<"insert">>]
    ELSE IF retry_without_content(resp.insert, content)
    THEN LET second == session_add(session_rollback(first), row["null"]) IN
         IF resp.retry_ok
         THEN [result |-> TRUE, rows |-> rows (+) SetToBag(second), pending |-> {},
               attempts |-> <<content, "null">>, effects |-> <<"insert_failed", "insert">>]
         ELSE [result |-> FALSE, rows |-> rows, pending |-> session_rollback(second),
               attempts |-> <<content, "null">>,
               effects |-> <<"insert_failed", "insert_failed">>]
    ELSE [result |-> FALSE, rows |-> rows, pending |-> session_rollback(first),
          attempts |-> <<content>>, effects |-> <<"insert_failed">>]

\* mcp_engine.py 1043-1206: the result, the tables and the object store after
\* one invocation, and the requests it made, in order
download_and_store_media(page_id, media_url, via, resp, rows, objs, timestamp) ==
    LET categorized_type == categorize_media_type(media_url, resp.content_type)
        size_limit == get_size_limit_for_media_type(categorized_type)
        bucket_name == get_minio_bucket_for_media_type(categorized_type)
        \* mcp_engine.py 1107: the category is passed where the page id is expected
        object_name == generate_minio_object_name(media_url, categorized_type, timestamp)
        content == content_for_db(resp.body)
        row(c) == MediaFileRow(page_id, media_url, resp, c, bucket_name, object_name)
        uploaded == put_object(objs, bucket_name, object_name, resp.body)
        saved == save_to_database(resp, rows, content, [c \in {content, "null"} |-> row(c)])
        out(result, rows2, objs2, effects) ==
            [result |-> result, rows |-> rows2, objects |-> objs2, effects |-> effects,
             pending |-> {}, attempts |-> <<>>]
    IN
    IF ~is_http(media_url) THEN out(FALSE, rows, objs, <<>>)
    ELSE IF media_exists(rows, page_id, media_url) THEN out(TRUE, rows, objs, <<>>)
    ELSE IF via = "none" THEN out(FALSE, rows, objs, <<>>)
    ELSE IF ~resp.get_ok THEN out(FALSE, rows, objs, <<"get">>)
    ELSE IF size_refused(resp.content_length, resp.body, size_limit)
    THEN out(FALSE, rows, objs, <<"get">>)
    ELSE IF ~resp.bucket_ok THEN out(FALSE, rows, objs, <<"get">>)
    ELSE IF ~resp.put_ok
    THEN out(FALSE, after_put_failure(rows, row(content)), objs, <<"get", "put_failed">>)
    ELSE [result |-> saved.result, rows |-> saved.rows, objects |-> uploaded,
          effects |-> <<"get", "put">> \o saved.effects,
          pending |-> saved.pending, attempts |-> saved.attempts]

----------------------------------------------------------------------------
VARIABLES
    ENABLE_TOR, ENABLE_I2P,   \* configuration flags
    DOWNLOAD_ALL_MEDIA,       \* configuration flag
    i2p_working,              \* self.i2p_working, the I2P health flag
    sel,                      \* SpecSelect: the call get_appropriate_session(url) and its result
    world,                    \* per URL: the answers its server may give (page, media)
    now,                      \* datetime.utcnow(), in hours
    clock,                    \* int(time.time()), in seconds
    sites,                    \* table sites: per URL its row, if present
    pages,                    \* table pages: the bag of rows inserted since the cycle began
    media_files,              \* table media_files: the bag of rows inserted since the cycle began
    objects,                  \* the object store: per bucket and object name, the size stored
    mcall,                    \* SpecMedia: the last invocation of the media pipeline
    main,                     \* SpecMain: where main() stands, what it was given, how it ended
    router,                   \* SpecRouter: the I2P router and what __init__ did to it
    cat,                      \* SpecCategorize: the call _categorize_media_type(url, content_type)
    lcall,                    \* SpecLinks: the call _extract_links_from_page(soup, base_url)
    race,                     \* SpecRace: concurrent calls of get_or_create_site(url), the rows of sites
    sites_file,               \* the lines of SITES_FILE
    opc,                      \* where crawl_sites stands
    working_queue, retry_queue,
    site_failure_counts,      \* 0 stands for "no key"
    failed_sites, success_count, total_failure_count,
    batch_start,              \* the loop variable i of the batch loop
    wk,                       \* per future of the current batch: the state of its _crawl_single_site
    dispatched,               \* history: per site, the submits of this cycle
    succeeded,                \* history: sites one of whose workers stored the seed and completed
    last_crawled_at_start     \* history: sites.last_crawled when the cycle began

confVars == <<ENABLE_TOR, ENABLE_I2P, DOWNLOAD_ALL_MEDIA, i2p_working, world, now, clock,
              sites_file>>
callVars == <<sel, mcall, main, router, cat, lcall, race>>
dbVars == <<sites, pages, media_files, objects>>
orchVars == <<opc, working_queue, retry_queue, site_failure_counts, failed_sites,
              success_count, total_failure_count, batch_start>>
histVars == <<dispatched, succeeded, last_crawled_at_start>>
vars == <<confVars, callVars, dbVars, orchVars, wk, histVars>>

----------------------------------------------------------------------------
(* Values of the parts a specification does not use *)

NoUrl == Url("", <<>>, "")
NoCall == [n |-> 0, page_id |-> [site |-> NoUrl, url |-> NoUrl, nth |-> 0], url |-> NoUrl, response |-> "none", existed |-> FALSE,
           result |-> FALSE, effects |-> <<>>, rows_before |-> EmptyBag,
           objects_before |-> {}, pending |-> {}, attempts |-> <<>>]

NoEnv == [db_ok |-> TRUE, schema_ok |-> TRUE, credentials |-> TRUE, store_ok |-> TRUE,
          buckets_ok |-> TRUE]
NoMain == [pc |-> "unused", env |-> NoEnv, crawler |-> FALSE, minio_client |-> "unset",
           error |-> "none", cycles |-> 0, interrupted |-> FALSE, released |-> FALSE,
           exit_code |-> -1]
NoRouter == [pc |-> "unused"]
NoCat == [called |-> TRUE, url |-> NoUrl, content_type |-> "", result |-> "unused"]
NoLinks == [called |-> TRUE, base_url |-> NoUrl, hrefs |-> {}, result |-> {}]
NoRace == [pc |-> "unused"]

Slots == 1..PARALLEL_SITES

IdleWorker ==
    [pc |-> "idle", site_url |-> NoUrl, session |-> "none", visited_urls |-> {},
     pages_to_crawl |-> <<>>, pages_crawled |-> 0, gets |-> <<>>, seed_stored |-> FALSE,
     in_transaction |-> FALSE]

NoSiteRow == [present |-> FALSE, is_onion |-> FALSE, is_i2p |-> FALSE,
              last_crawled |-> [null |-> TRUE, at |-> 0]]

NoSel == [called |-> TRUE, url |-> NoUrl, result |-> "unused", site |-> NoSiteRow]

SilentWorld == [u \in Urls |-> [page |-> {ErrorResponse}, media |-> {"failed"}]]

DbEmpty ==
    /\ sites = [u \in SiteUrls |-> NoSiteRow]
    /\ pages = EmptyBag
    /\ media_files = EmptyBag
    /\ objects = {}

OrchIdle(at) ==
    /\ opc = at
    /\ working_queue = <<>>
    /\ retry_queue = <<>>
    /\ site_failure_counts = [u \in SiteUrls |-> 0]
    /\ failed_sites = <<>>
    /\ success_count = 0
    /\ total_failure_count = 0
    /\ batch_start = 0

HistEmpty ==
    /\ dispatched = [u \in SiteUrls |-> 0]
    /\ succeeded = {}
    /\ last_crawled_at_start = [u \in SiteUrls |-> [null |-> TRUE, at |-> 0]]

----------------------------------------------------------------------------
(* SpecSelect: get_appropriate_session on every URL and flag combination *)

\* hostnames of at most n labels
RECURSIVE HostsUpTo(_)
HostsUpTo(n) ==
    IF n = 0 THEN {<<>>}
    ELSE LET shorter == HostsUpTo(n - 1) IN
         shorter \cup {Append(h, l) : h \in {s \in shorter : Len(s) = n - 1}, l \in Labels}

SelUrls ==
    {[scheme |-> "http", host |-> h, port |-> p, path |-> "/"] :
        h \in HostsUpTo(MaxLabels), p \in {0, 8080}}

SelInit ==
    /\ ENABLE_TOR \in BOOLEAN
    /\ ENABLE_I2P \in BOOLEAN
    /\ i2p_working \in BOOLEAN
    /\ DOWNLOAD_ALL_MEDIA = TRUE
    /\ clock = 0
    /\ mcall = NoCall
    /\ main = NoMain
    /\ router = NoRouter
    /\ cat = NoCat
    /\ lcall = NoLinks
    /\ race = NoRace
    /\ sel \in {[called |-> FALSE, url |-> u, result |-> "pending", site |-> NoSiteRow] :
                   u \in SelUrls}
    /\ world = SilentWorld
    /\ now = 0
    /\ sites_file = <<>>
    /\ DbEmpty
    /\ OrchIdle("unused")
    /\ wk = [k \in Slots |-> IdleWorker]
    /\ HistEmpty

Select ==
    /\ sel.called = FALSE
    /\ sel' = [sel EXCEPT !.called = TRUE,
                          !.result = get_appropriate_session(sel.url, ENABLE_TOR,
                                                             ENABLE_I2P, i2p_working)]
    /\ UNCHANGED <<confVars, mcall, main, router, cat, lcall, race, dbVars, orchVars, wk, histVars>>

----------------------------------------------------------------------------
(* _crawl_single_site: the worker of one future *)

\* get_or_create_site(url): the sites table afterwards.  is_onion / is_i2p are
\* taken from urlparse(url).netloc, which still holds the port.
netloc_endswith(url, tld) == url.port = 0 /\ endswith(hostname(url), tld)

\* mcp_engine.py 783-798: the row of a site that is not in the table yet
new_site(url) ==
    [present |-> TRUE, is_onion |-> netloc_endswith(url, "onion"),
     is_i2p |-> netloc_endswith(url, "i2p"), last_crawled |-> [null |-> TRUE, at |-> 0]]

get_or_create_site(url) ==
    IF sites[url].present THEN sites ELSE [sites EXCEPT ![url] = new_site(url)]

\* SpecSelect: get_or_create_site(url) on a table without a row for url
CreateSite ==
    /\ ~sel.site.present
    /\ sel' = [sel EXCEPT !.site = new_site(sel.url)]
    /\ UNCHANGED <<confVars, mcall, main, router, cat, lcall, race, dbVars, orchVars, wk, histVars>>

SelNext == Select \/ CreateSite

SpecSelect == SelInit /\ [][SelNext]_vars

\* page.id of the row about to be inserted: ids are given out once, so the
\* row is told apart by its site, its URL and the rows of that site and URL
\* inserted before it
PageId(site, url, rows) ==
    LET earlier == {r \in BagToSet(rows) : r.site = site /\ r.url = url}
    IN [site |-> site, url |-> url, nth |-> BagCardinality([r \in earlier |-> rows[r]]) + 1]

\* what the world does to the media pipeline's request for a page's URL:
\* it is answered, uploaded and inserted, or it is answered and the bucket
\* can neither be found nor made, or the GET fails
MediaScenario(kind) ==
    IF kind = "stored"
    THEN MediaResponse(TRUE, "text/html", NoLength, 43008, TRUE, TRUE, "ok", TRUE)
    ELSE IF kind = "no_bucket"
    THEN MediaResponse(TRUE, "text/html", NoLength, 43008, FALSE, TRUE, "ok", TRUE)
    ELSE MediaResponse(FALSE, "", NoLength, 0, TRUE, TRUE, "ok", TRUE)

\* the session a page of the site is requested through: the one selected once,
\* for site_url, before the loop (mcp_engine.py 959-963, 984)
page_session(w, current_url) == w.session

\* the depth given to the links found on a page of depth `depth`, two too deep
child_depth_off_by_one(depth) == depth + 2

\* the depth given to the links found on a page, one less than the page's
child_depth_shallower(depth) == depth - 1

\* mcp_engine.py 1018: (link, depth + 1)
child_depth(depth) == depth + 1

\* the loop condition with the page counter ignored
loop_continues_uncapped(w) == w.pages_to_crawl # <<>>

\* mcp_engine.py 972: while pages_to_crawl and pages_crawled < MAX_PAGES_PER_SITE
loop_continues(w) ==
    w.pages_to_crawl # <<>> /\ w.pages_crawled < MAX_PAGES_PER_SITE

\* the test of the popped entry without the visited set
entry_skipped_by_depth_only(w, entry) == entry.depth > CRAWL_DEPTH

\* mcp_engine.py 975: the popped entry is dropped
entry_skipped(w, entry) ==
    entry.url \in w.visited_urls \/ entry.depth > CRAWL_DEPTH

\* the thread's database session after get_or_create_site: the query of line
\* 790 begins a transaction; a new site is committed (800), which ends it; an
\* existing site is returned with the transaction still open
open_after_get_or_create(existed) == existed

\* mcp_engine.py 950-969: the site row, the session, the first frontier; a
\* worker that finds no transport returns, and finally closes its session (1041)
StartWorker(k) ==
    /\ wk[k].pc = "queued"
    /\ LET url == wk[k].site_url
           kind == get_appropriate_session(url, ENABLE_TOR, ENABLE_I2P, i2p_working)
       IN /\ sites' = get_or_create_site(url)
          /\ wk' = [wk EXCEPT ![k] =
                      IF kind = "none"
                      THEN [@ EXCEPT !.pc = "returned"]
                      ELSE [@ EXCEPT !.pc = "loop", !.session = kind,
                                     !.in_transaction =
                                         open_after_get_or_create(sites[url].present),
                                     !.pages_to_crawl =
                                         <<[url |-> url, depth |-> 0, parent_depth |-> -1]>>]]
    /\ UNCHANGED <<confVars, callVars, pages, media_files, objects, orchVars, histVars>>

\* mcp_engine.py 973-976: an entry already visited, or too deep, is popped and dropped
SkipEntry(k) ==
    /\ wk[k].pc = "loop"
    /\ loop_continues(wk[k])
    /\ entry_skipped(wk[k], Head(wk[k].pages_to_crawl))
    /\ wk' = [wk EXCEPT ![k].pages_to_crawl = Tail(@)]
    /\ UNCHANGED <<confVars, callVars, dbVars, orchVars, histVars>>

\* mcp_engine.py 973-985, 1026-1028: the GET raises a RequestException
FetchError(k) ==
    /\ wk[k].pc = "loop"
    /\ loop_continues(wk[k])
    /\ LET entry == Head(wk[k].pages_to_crawl) IN
       /\ ~entry_skipped(wk[k], entry)
       /\ ErrorResponse \in world[entry.url].page
       /\ wk' = [wk EXCEPT ![k] =
                   [@ EXCEPT !.pages_to_crawl = Tail(@),
                             !.visited_urls = @ \cup {entry.url},
                             !.gets = Append(@, [url |-> entry.url, kind |-> "page",
                                                 via |-> page_session(wk[k], entry.url)])]]
    /\ UNCHANGED <<confVars, callVars, dbVars, orchVars, histVars>>

\* mcp_engine.py 973-1024: the GET succeeds; the Page row is committed, the
\* page's own URL is handed to _download_and_store_media_parallel (which
\* requests it again, through the session selected for that URL, and stores a
\* MediaFile row when download, upload and insert succeed), the links are
\* appended, the counter and last_crawled are updated and committed (1024)
FetchStore(k) ==
    /\ wk[k].pc = "loop"
    /\ loop_continues(wk[k])
    /\ LET entry == Head(wk[k].pages_to_crawl)
           site == wk[k].site_url
       IN
       /\ ~entry_skipped(wk[k], entry)
       /\ \E response \in world[entry.url].page, media \in world[entry.url].media :
            LET media_via == get_appropriate_session(entry.url, ENABLE_TOR, ENABLE_I2P,
                                                     i2p_working)
                stored == download_and_store_media(PageId(site, entry.url, pages), entry.url,
                                                   media_via, MediaScenario(media),
                                                   media_files, objects, clock)
                media_gets == IF "get" \in Range(stored.effects)
                              THEN << [url |-> entry.url, kind |-> "media",
                                       via |-> media_via] >>
                              ELSE << >>
                new_links == IF entry.depth < CRAWL_DEPTH
                             THEN extract_links_from_page(response.hrefs, entry.url)
                             ELSE {}
            IN
            /\ response.ok
            /\ \E order \in Orders(new_links) :
                 wk' = [wk EXCEPT ![k] =
                     [@ EXCEPT
                        !.pages_to_crawl =
                            Tail(@) \o [j \in 1..Len(order) |->
                                         [url |-> order[j],
                                          depth |-> child_depth(entry.depth),
                                          parent_depth |-> entry.depth]],
                        !.visited_urls = @ \cup {entry.url},
                        !.gets = @ \o
                            << [url |-> entry.url, kind |-> "page",
                                via |-> page_session(wk[k], entry.url)] >> \o media_gets,
                        !.pages_crawled = @ + 1,
                        !.in_transaction = FALSE,
                        !.seed_stored = @ \/ (entry.url = site /\ entry.depth = 0)]]
            /\ pages' = pages (+) SetToBag({[site |-> site, url |-> entry.url,
                                            depth |-> entry.depth]})
            /\ media_files' = stored.rows
            /\ objects' = stored.objects
       /\ sites' = [sites EXCEPT ![site].last_crawled = [null |-> FALSE, at |-> now]]
    /\ UNCHANGED <<confVars, callVars, orchVars, histVars>>

\* mcp_engine.py 1034-1041: the loop is left; the function ends without a
\* return statement, so the future's result is None; finally closes the
\* thread's session, which ends its transaction
ReturnNone(k) ==
    /\ wk[k].pc = "loop"
    /\ ~loop_continues(wk[k])
    /\ wk' = [wk EXCEPT ![k] = [@ EXCEPT !.pc = "returned", !.in_transaction = FALSE]]
    /\ UNCHANGED <<confVars, callVars, dbVars, orchVars, histVars>>

Worker(k) ==
    \/ StartWorker(k)
    \/ SkipEntry(k)
    \/ FetchError(k)
    \/ FetchStore(k)
    \/ ReturnNone(k)

----------------------------------------------------------------------------
(* SpecSite: one worker, any server behaviour *)

Contents == SUBSET Hrefs

AnyWorld ==
    [u \in Urls |-> [page |-> {ErrorResponse} \cup {Document(c) : c \in Contents},
                     media |-> {"stored", "failed"}]]

SiteInit ==
    /\ ENABLE_TOR = TRUE
    /\ ENABLE_I2P \in BOOLEAN
    /\ i2p_working \in BOOLEAN
    /\ DOWNLOAD_ALL_MEDIA \in BOOLEAN
    /\ clock = 0
    /\ mcall = NoCall
    /\ main = NoMain
    /\ router = NoRouter
    /\ cat = NoCat
    /\ lcall = NoLinks
    /\ race = NoRace
    /\ sel = NoSel
    /\ world = AnyWorld
    /\ now = RESEARCH_FREQUENCY_HOURS
    /\ sites_file = <<>>
    /\ DbEmpty
    /\ OrchIdle("unused")
    /\ \E seed \in SiteUrls :
         wk = [k \in Slots |-> IF k = 1 THEN [IdleWorker EXCEPT !.pc = "queued",
                                                                !.site_url = seed]
                               ELSE IdleWorker]
    /\ HistEmpty

SiteNext == Worker(1)

SpecSite == SiteInit /\ [][SiteNext]_vars

----------------------------------------------------------------------------
(* crawl_sites: one cycle *)

UrlLine(url) == [kind |-> "url", url |-> url]
BlankLine == [kind |-> "blank", url |-> NoUrl]
CommentLine == [kind |-> "comment", url |-> NoUrl]
Lines == {UrlLine(u) : u \in SiteUrls} \cup {BlankLine, CommentLine}

\* read_sites(): the stripped lines that are neither empty nor comments, in
\* file order, repetitions kept
read_sites(file) ==
    LET kept(line) == line.kind # "blank" /\ line.kind # "comment"
        lines == SelectSeq(file, kept)
    IN [j \in 1..Len(lines) |-> lines[j].url]

\* the batch cut short: working_queue[i:i + 1]
batch_of_first_only(queue, i) == SubSeq(queue, i + 1, i + 1)

\* working_queue[i:i + PARALLEL_SITES]
batch_of(queue, i) ==
    SubSeq(queue, i + 1, IF i + PARALLEL_SITES < Len(queue)
                         THEN i + PARALLEL_SITES ELSE Len(queue))

\* the test of the retry branch with <= for <
retry_allowed_one_more(failure_count) == failure_count <= max_retries

\* mcp_engine.py 892: if failure_count < max_retries
retry_allowed(failure_count) == failure_count < max_retries

\* a worker whose result is True whatever it did
future_result_true(w) == "True"

\* future.result(): _crawl_single_site has no return value on any path
future_result(w) == "None"

\* bool(future.result())
truthy(result) == result = "True"

\* mcp_engine.py 839-855
ReadSites ==
    /\ opc = "read_sites"
    /\ LET sites_list == read_sites(sites_file) IN
       IF sites_list = <<>>
       THEN /\ opc' = "done"
            /\ UNCHANGED working_queue
       ELSE /\ opc' = "while"
            /\ working_queue' = sites_list
    /\ last_crawled_at_start' = [u \in SiteUrls |-> sites[u].last_crawled]
    /\ UNCHANGED <<confVars, callVars, dbVars, retry_queue, site_failure_counts, failed_sites,
                   success_count, total_failure_count, batch_start, wk,
                   dispatched, succeeded>>

\* mcp_engine.py 857-862: the loop goes on; an empty working queue takes over
\* the retry queue
BeginRound ==
    /\ opc = "while"
    /\ working_queue # <<>> \/ retry_queue # <<>>
    /\ IF working_queue = <<>>
       THEN /\ working_queue' = retry_queue
            /\ retry_queue' = <<>>
       ELSE UNCHANGED <<working_queue, retry_queue>>
    /\ batch_start' = 0
    /\ opc' = "for"
    /\ UNCHANGED <<confVars, callVars, dbVars, site_failure_counts, failed_sites, success_count,
                   total_failure_count, wk, histVars>>

\* mcp_engine.py 857, 931-945: both queues are empty
CycleDone ==
    /\ opc = "while"
    /\ working_queue = <<>>
    /\ retry_queue = <<>>
    /\ opc' = "done"
    /\ UNCHANGED <<confVars, callVars, dbVars, working_queue, retry_queue, site_failure_counts,
                   failed_sites, success_count, total_failure_count, batch_start, wk,
                   histVars>>

\* mcp_engine.py 865-873: one future per site of the batch
SubmitBatch ==
    /\ opc = "for"
    /\ batch_start < Len(working_queue)
    /\ LET batch == batch_of(working_queue, batch_start) IN
       /\ wk' = [k \in Slots |->
                   IF k <= Len(batch)
                   THEN [IdleWorker EXCEPT !.pc = "queued", !.site_url = batch[k]]
                   ELSE IdleWorker]
       /\ dispatched' = [u \in SiteUrls |-> dispatched[u] + Occurrences(batch, u)]
    /\ opc' = "collect"
    /\ UNCHANGED <<confVars, callVars, dbVars, working_queue, retry_queue, site_failure_counts,
                   failed_sites, success_count, total_failure_count, batch_start,
                   succeeded, last_crawled_at_start>>

\* mcp_engine.py 888: site_failure_counts.get(site_url, 0) + 1
next_failure_count(failure_count) == failure_count + 1

\* mcp_engine.py 876-900: the result of one completed future
Collect(k) ==
    /\ opc = "collect"
    /\ wk[k].pc = "returned"
    /\ LET site_url == wk[k].site_url
           success == truthy(future_result(wk[k]))
           failure_count == next_failure_count(site_failure_counts[site_url])
       IN
       /\ IF success
          THEN /\ success_count' = success_count + 1
               /\ site_failure_counts' = [site_failure_counts EXCEPT ![site_url] = 0]
               /\ UNCHANGED <<retry_queue, failed_sites, total_failure_count>>
          ELSE /\ site_failure_counts' = [site_failure_counts EXCEPT ![site_url] = failure_count]
               /\ IF retry_allowed(failure_count)
                  THEN /\ retry_queue' = Append(retry_queue, site_url)
                       /\ UNCHANGED <<failed_sites, total_failure_count>>
                  ELSE /\ failed_sites' = Append(failed_sites, site_url)
                       /\ total_failure_count' = total_failure_count + 1
                       /\ UNCHANGED retry_queue
               /\ UNCHANGED success_count
       /\ succeeded' = IF wk[k].seed_stored THEN succeeded \cup {site_url} ELSE succeeded
    /\ wk' = [wk EXCEPT ![k] = IdleWorker]
    /\ UNCHANGED <<confVars, callVars, dbVars, opc, working_queue, batch_start,
                   dispatched, last_crawled_at_start>>

\* the collecting loop left as soon as one future of the batch is collected
first_collected(workers) == \E k \in DOMAIN workers : workers[k].pc = "idle"

\* mcp_engine.py 876: for future in as_completed(future_to_site) ends when
\* every future of the batch has completed and has been handled
batch_collected(workers) == \A k \in DOMAIN workers : workers[k].pc = "idle"

\* mcp_engine.py 919-921: every future of the batch is collected; next batch
EndBatch ==
    /\ opc = "collect"
    /\ batch_collected(wk)
    /\ batch_start' = batch_start + PARALLEL_SITES
    /\ opc' = "for"
    /\ UNCHANGED <<confVars, callVars, dbVars, working_queue, retry_queue, site_failure_counts,
                   failed_sites, success_count, total_failure_count, wk, histVars>>

\* mcp_engine.py 923-929: the batches are through; the working queue is cleared
EndRound ==
    /\ opc = "for"
    /\ batch_start >= Len(working_queue)
    /\ working_queue' = <<>>
    /\ opc' = "while"
    /\ UNCHANGED <<confVars, callVars, dbVars, retry_queue, site_failure_counts, failed_sites,
                   success_count, total_failure_count, batch_start, wk, histVars>>

----------------------------------------------------------------------------
(* Spec: a cycle over servers that answer the same way throughout it *)

\* the seed page links to itself and to /a, every other page back to the seed
SteadyContent(url) == IF url.path = "/" THEN {Rel("/"), Rel("/a")} ELSE {Rel("/")}

\* the seed of a host in `flaky` answers some GETs and fails others (all of
\* them, or none, included); every other page always answers
SteadyWorld(flaky) ==
    [u \in Urls |->
        [page |-> IF u.host \in flaky /\ u.path = "/"
                  THEN {ErrorResponse, Document(SteadyContent(u))}
                  ELSE {Document(SteadyContent(u))},
         media |-> {"stored"}]]

CycleWorld == SteadyWorld({<<"y", "i2p">>})

RECURSIVE FilesUpTo(_)
FilesUpTo(n) ==
    IF n = 0 THEN {<<>>}
    ELSE LET shorter == FilesUpTo(n - 1) IN
         shorter \cup {Append(f, l) : f \in {s \in shorter : Len(s) = n - 1}, l \in Lines}

\* the row of a site that an earlier run of the crawler crawled an hour ago;
\* a cycle starts with such a row for A0 and with no row for I0
CrawledSiteRow(url) ==
    [present |-> TRUE, is_onion |-> netloc_endswith(url, "onion"),
     is_i2p |-> netloc_endswith(url, "i2p"),
     last_crawled |-> [null |-> FALSE, at |-> RESEARCH_FREQUENCY_HOURS - 1]]

Init ==
    /\ ENABLE_TOR = TRUE
    /\ ENABLE_I2P = TRUE
    /\ i2p_working = TRUE
    /\ DOWNLOAD_ALL_MEDIA = TRUE
    /\ clock = 0
    /\ mcall = NoCall
    /\ main = NoMain
    /\ router = NoRouter
    /\ cat = NoCat
    /\ lcall = NoLinks
    /\ race = NoRace
    /\ sel = NoSel
    /\ world = CycleWorld
    /\ now = RESEARCH_FREQUENCY_HOURS
    /\ sites_file \in FilesUpTo(MaxLines)
    /\ sites = [u \in SiteUrls |-> IF u = A0 THEN CrawledSiteRow(u) ELSE NoSiteRow]
    /\ pages = EmptyBag
    /\ media_files = EmptyBag
    /\ objects = {}
    /\ OrchIdle("read_sites")
    /\ wk = [k \in Slots |-> IdleWorker]
    /\ HistEmpty

Next ==
    \/ ReadSites
    \/ BeginRound
    \/ CycleDone
    \/ SubmitBatch
    \/ \E k \in Slots : Worker(k)
    \/ \E k \in Slots : Collect(k)
    \/ EndBatch
    \/ EndRound

Spec == Init /\ [][Next]_vars

----------------------------------------------------------------------------
(* SpecBatches: a cycle over a sites file that one batch cannot hold *)

\* every site is one page that links to itself; the seed of the .i2p site
\* answers some GETs and fails others
BatchesWorld ==
    [u \in Urls |->
        [page |-> IF u.host = <<"y", "i2p">>
                  THEN {ErrorResponse, Document({Rel("/")})}
                  ELSE {Document({Rel("/")})},
         media |-> {"stored"}]]

\* the sites files of PARALLEL_SITES + 1 URL lines
OverfullFiles == [1..(PARALLEL_SITES + 1) -> {UrlLine(u) : u \in SiteUrls}]

BatchesInit ==
    /\ ENABLE_TOR = TRUE
    /\ ENABLE_I2P = TRUE
    /\ i2p_working = TRUE
    /\ DOWNLOAD_ALL_MEDIA = TRUE
    /\ clock = 0
    /\ mcall = NoCall
    /\ main = NoMain
    /\ router = NoRouter
    /\ cat = NoCat
    /\ lcall = NoLinks
    /\ race = NoRace
    /\ sel = NoSel
    /\ world = BatchesWorld
    /\ now = RESEARCH_FREQUENCY_HOURS
    /\ sites_file \in OverfullFiles
    /\ sites = [u \in SiteUrls |-> IF u = A0 THEN CrawledSiteRow(u) ELSE NoSiteRow]
    /\ pages = EmptyBag
    /\ media_files = EmptyBag
    /\ objects = {}
    /\ OrchIdle("read_sites")
    /\ wk = [k \in Slots |-> IdleWorker]
    /\ HistEmpty

SpecBatches == BatchesInit /\ [][Next]_vars

\* the sites file of PARALLEL_SITES + 1 lines that names the two sites in turn
AlternatingFile ==
    [j \in 1..(PARALLEL_SITES + 1) |-> UrlLine(IF j % 2 = 1 THEN A0 ELSE I0)]

\* every site is one page that links to itself; the .i2p site never answers
FairWorld ==
    [u \in Urls |->
        [page |-> IF u.host = <<"y", "i2p">> THEN {ErrorResponse} ELSE {Document({Rel("/")})},
         media |-> {"stored"}]]

FairInit ==
    /\ ENABLE_TOR = TRUE
    /\ ENABLE_I2P = TRUE
    /\ i2p_working = TRUE
    /\ DOWNLOAD_ALL_MEDIA = TRUE
    /\ clock = 0
    /\ mcall = NoCall
    /\ main = NoMain
    /\ router = NoRouter
    /\ cat = NoCat
    /\ lcall = NoLinks
    /\ race = NoRace
    /\ sel = NoSel
    /\ world = FairWorld
    /\ now = RESEARCH_FREQUENCY_HOURS
    /\ sites_file = AlternatingFile
    /\ DbEmpty
    /\ OrchIdle("read_sites")
    /\ wk = [k \in Slots |-> IdleWorker]
    /\ HistEmpty

\* SpecBatchesFair: the cycle over that file, in which a step is taken as
\* long as a thread can take one: each worker returns (every GET ends, by its
\* answer or by its timeout of 30 s, line 984), the sleeps of crawl_sites end
\* (920, 929), and as_completed hands over every future that is done
SpecBatchesFair == FairInit /\ [][Next]_vars /\ WF_vars(Next)

----------------------------------------------------------------------------
(* SpecMedia: invocations of _download_and_store_media_parallel, one after
   the other, on any page, URL and answer of the outside world *)

PicUrl == Url("http", <<"a", "test">>, "/pic.jpg")
MovieUrl == Url("http", <<"a", "test">>, "/movie.mp4")
MediaUrls == {PicUrl, MovieUrl}
MediaPageIds == {[site |-> A0, url |-> A0, nth |-> n] : n \in 1..2}

\* the Content-Type the server of a URL answers with
content_type_of(url) ==
    IF url = PicUrl THEN "image/jpeg"
    ELSE IF url = MovieUrl THEN "video/mp4"
    ELSE "text/html"

\* body lengths: a small file, and one byte more than each threshold
Bodies == {43008, INLINE_LIMIT + 1, MAX_IMAGE_SIZE + 1, MAX_VIDEO_SIZE + 1}
\* a body of any of these lengths without a Content-Length header, and a small
\* body under a header that announces more than any cap
Payloads ==
    {[content_length |-> NoLength, body |-> b] : b \in Bodies}
        \cup {[content_length |-> Length(MAX_VIDEO_SIZE + 1), body |-> 43008]}
\* at most one step of an invocation goes wrong
Faults == {"none", "get", "bucket", "put", "insert_error", "too_long", "too_long_twice"}

FaultyResponse(url, fault, payload) ==
    MediaResponse(fault # "get", content_type_of(url), payload.content_length, payload.body,
                  fault # "bucket", fault # "put",
                  IF fault = "insert_error" THEN "error"
                  ELSE IF fault \in {"too_long", "too_long_twice"} THEN "too_long"
                  ELSE "ok",
                  fault # "too_long_twice")

\* the invocations: every media URL with every payload and fault, and a
\* reference that is no http(s) URL
MediaRequests ==
    {[url |-> u, fault |-> f, payload |-> p] : u \in MediaUrls, f \in Faults, p \in Payloads}
        \cup {[url |-> Mailto, fault |-> "none",
               payload |-> [content_length |-> NoLength, body |-> 43008]]}

MediaInit ==
    /\ ENABLE_TOR = TRUE
    /\ ENABLE_I2P = TRUE
    /\ i2p_working = TRUE
    /\ DOWNLOAD_ALL_MEDIA = TRUE
    /\ clock = 0
    /\ mcall = NoCall
    /\ main = NoMain
    /\ router = NoRouter
    /\ cat = NoCat
    /\ lcall = NoLinks
    /\ race = NoRace
    /\ sel = NoSel
    /\ world = SilentWorld
    /\ now = 0
    /\ sites_file = <<>>
    /\ DbEmpty
    /\ OrchIdle("unused")
    /\ wk = [k \in Slots |-> IdleWorker]
    /\ HistEmpty

\* one invocation, from the call to the return; the second it runs in is the
\* one of the invocation before, or the next
MediaCall ==
    /\ mcall.n < MaxCalls
    /\ \E page_id \in MediaPageIds, request \in MediaRequests,
          timestamp \in {clock, clock + 1} :
         LET media_url == request.url
             resp == FaultyResponse(media_url, request.fault, request.payload)
             via == get_appropriate_session(media_url, ENABLE_TOR, ENABLE_I2P, i2p_working)
             out == download_and_store_media(page_id, media_url, via, resp, media_files,
                                             objects, timestamp)
         IN
         /\ media_files' = out.rows
         /\ objects' = out.objects
         /\ clock' = timestamp
         /\ mcall' = [n |-> mcall.n + 1, page_id |-> page_id, url |-> media_url,
                      response |-> resp,
                      existed |-> media_exists(media_files, page_id, media_url),
                      result |-> out.result, effects |-> out.effects,
                      rows_before |-> media_files, objects_before |-> objects,
                      pending |-> out.pending, attempts |-> out.attempts]
    /\ UNCHANGED <<ENABLE_TOR, ENABLE_I2P, DOWNLOAD_ALL_MEDIA, i2p_working, world, now,
                   sites_file, sel, main, router, cat, lcall, race, sites, pages, orchVars, wk, histVars>>

MediaNext == MediaCall

SpecMedia == MediaInit /\ [][MediaNext]_vars

----------------------------------------------------------------------------
(* SpecMain: main(), from the construction of the crawler to the end of   *)
(* the process                                                             *)

\* the cycles of main's `while True` that the model follows
MaxCycles == 2

\* what the process finds when it starts: the database answers SELECT 1, the
\* schema can be created, the object store's credentials are configured, the
\* object store answers list_buckets, its buckets can be created
Envs == [db_ok : BOOLEAN, schema_ok : BOOLEAN, credentials : BOOLEAN, store_ok : BOOLEAN,
         buckets_ok : BOOLEAN]

\* an exception leaves AIResearchCrawler(): main logs it and raises it again
\* (mcp_engine.py 2472-2474); crawler is still None, finally closes nothing
\* (2476), the interpreter ends with the traceback and exit code 1
raised(m, error) == [m EXCEPT !.pc = "exited", !.error = error, !.exit_code = 1]

\* mcp_engine.py 228-230, 282-292
InitDatabaseSession ==
    /\ main.pc = "init_database_session"
    /\ main' = IF main.env.db_ok
               THEN [main EXCEPT !.pc = "setup_database_schema"]
               ELSE raised(main, "RuntimeError: Database initialization failed")
    /\ UNCHANGED <<confVars, sel, mcall, router, cat, lcall, race, dbVars, orchVars, wk, histVars>>

\* mcp_engine.py 233-235, 294-309
SetupDatabaseSchema ==
    /\ main.pc = "setup_database_schema"
    /\ main' = IF main.env.schema_ok
               THEN [main EXCEPT !.pc = "setup_minio_client"]
               ELSE raised(main, "RuntimeError: Database schema setup failed")
    /\ UNCHANGED <<confVars, sel, mcall, router, cat, lcall, race, dbVars, orchVars, wk, histVars>>

\* mcp_engine.py 238, 311-350: without credentials the function returns before
\* self.minio_client is assigned; a store that does not answer, or a bucket
\* that cannot be created, makes it return False after the assignment; the
\* caller drops the value returned
SetupMinioClient ==
    /\ main.pc = "setup_minio_client"
    /\ main' = [main EXCEPT !.pc = "test_minio_connection",
                            !.minio_client = IF main.env.credentials THEN "set" ELSE "unset"]
    /\ UNCHANGED <<confVars, sel, mcall, router, cat, lcall, race, dbVars, orchVars, wk, histVars>>

\* mcp_engine.py 241, 1788-1824: `if not self.minio_client` reads an attribute
\* that may never have been assigned; a store that does not answer gives
\* False, an error on a bucket is logged and the function returns True; the
\* caller drops the value returned
TestMinioConnection ==
    /\ main.pc = "test_minio_connection"
    /\ main' = IF main.minio_client = "unset"
               THEN raised(main, "AttributeError: minio_client")
               ELSE [main EXCEPT !.pc = "setup_proxy_sessions"]
    /\ UNCHANGED <<confVars, sel, mcall, router, cat, lcall, race, dbVars, orchVars, wk, histVars>>

\* the test of ENABLE_TOR that lets a disabled Tor pass
tor_refused_never(enable_tor) == FALSE

\* mcp_engine.py 360, 380-382: else: raise RuntimeError("Tor must be enabled ...")
tor_refused(enable_tor) == ~enable_tor

\* mcp_engine.py 244, 352-404
SetupProxySessions ==
    /\ main.pc = "setup_proxy_sessions"
    /\ main' = IF tor_refused(ENABLE_TOR)
               THEN raised(main, "RuntimeError: Tor must be enabled for privacy compliance")
               ELSE [main EXCEPT !.pc = "gentle_i2p"]
    /\ UNCHANGED <<confVars, sel, mcall, router, cat, lcall, race, dbVars, orchVars, wk, histVars>>

\* mcp_engine.py 249-274, 2439-2443: the health of the router decides
\* self.i2p_working, the constructor returns, crawler is assigned, the
\* enhanced schema is set up (its errors are caught and logged)
GentleI2PInitialization ==
    /\ main.pc = "gentle_i2p"
    /\ i2p_working' \in BOOLEAN
    /\ main' = [main EXCEPT !.pc = "while_true", !.crawler = TRUE]
    /\ UNCHANGED <<ENABLE_TOR, ENABLE_I2P, DOWNLOAD_ALL_MEDIA, world, now, clock, sites_file,
                   sel, mcall, router, cat, lcall, race, dbVars, orchVars, wk, histVars>>

\* mcp_engine.py 2446-2451: crawler.crawl_sites() is called with fresh locals
StartCycle ==
    /\ main.pc = "while_true"
    /\ main.cycles < MaxCycles
    /\ main' = [main EXCEPT !.pc = "crawl_sites", !.cycles = @ + 1]
    /\ opc' = "read_sites"
    /\ working_queue' = <<>>
    /\ retry_queue' = <<>>
    /\ site_failure_counts' = [u \in SiteUrls |-> 0]
    /\ failed_sites' = <<>>
    /\ success_count' = 0
    /\ total_failure_count' = 0
    /\ batch_start' = 0
    /\ dispatched' = [u \in SiteUrls |-> 0]
    /\ succeeded' = {}
    /\ UNCHANGED <<confVars, sel, mcall, router, cat, lcall, race, dbVars, wk, last_crawled_at_start>>

\* mcp_engine.py 2453-2463: crawl_sites has returned; the analysis and the
\* report are placeholders; the process sleeps RESEARCH_FREQUENCY_HOURS
EndCycle ==
    /\ main.pc = "crawl_sites"
    /\ opc = "done"
    /\ main' = [main EXCEPT !.pc = "sleep"]
    /\ UNCHANGED <<confVars, sel, mcall, router, cat, lcall, race, dbVars, orchVars, wk, histVars>>

\* mcp_engine.py 2463, 2446: the sleep ends, the loop goes round
WakeUp ==
    /\ main.pc = "sleep"
    /\ main' = [main EXCEPT !.pc = "while_true"]
    /\ now' = now + RESEARCH_FREQUENCY_HOURS
    /\ UNCHANGED <<ENABLE_TOR, ENABLE_I2P, DOWNLOAD_ALL_MEDIA, i2p_working, world, clock,
                   sites_file, sel, mcall, router, cat, lcall, race, dbVars, orchVars, wk, histVars>>

\* mcp_engine.py 2465-2467: KeyboardInterrupt is raised in the main thread,
\* inside crawl_sites or inside a sleep; the frame of crawl_sites is unwound,
\* the handler leaves the loop.  The threads of the pool are not told.
Interrupt ==
    /\ main.pc \in {"while_true", "crawl_sites", "sleep"}
    /\ main' = [main EXCEPT !.pc = "finally", !.interrupted = TRUE]
    /\ opc' = "unwound"
    /\ UNCHANGED <<confVars, sel, mcall, router, cat, lcall, race, dbVars, working_queue, retry_queue,
                   site_failure_counts, failed_sites, success_count, total_failure_count,
                   batch_start, wk, histVars>>

\* mcp_engine.py 2475-2478: crawler.close() - AIResearchCrawler defines no
\* close, so the call raises AttributeError out of finally; nothing calls
\* _cleanup_resources.  The interpreter prints the traceback, then joins the
\* threads of the pool before it ends with exit code 1.
Close ==
    /\ main.pc = "finally"
    /\ main.crawler
    /\ main' = [main EXCEPT !.pc = "joining", !.error = "AttributeError: close",
                            !.exit_code = 1]
    /\ UNCHANGED <<confVars, sel, mcall, router, cat, lcall, race, dbVars, orchVars, wk, histVars>>

\* interpreter shutdown: every thread of the pool has ended its work
Exit ==
    /\ main.pc = "joining"
    /\ \A k \in Slots : wk[k].pc \in {"idle", "returned"}
    /\ main' = [main EXCEPT !.pc = "exited"]
    /\ UNCHANGED <<confVars, sel, mcall, router, cat, lcall, race, dbVars, orchVars, wk, histVars>>

\* two sites; the page of the first links to the seed of the second and to a
\* host that never answers, the page of the second to itself.  The media
\* pipeline gets its answer and
\* finds its bucket exactly when the object store has its buckets.
MainWorld(env) ==
    [u \in Urls |->
        [page |-> IF u.host = <<"a", "test">> THEN {Document({I0, B0})}
                  ELSE IF u.host = <<"y", "i2p">> THEN {Document({Rel("/")})}
                  ELSE {ErrorResponse},
         media |-> IF env.store_ok /\ env.buckets_ok THEN {"stored"} ELSE {"no_bucket"}]]

MainInit ==
    /\ ENABLE_TOR \in BOOLEAN
    /\ ENABLE_I2P = TRUE
    /\ i2p_working = FALSE
    /\ DOWNLOAD_ALL_MEDIA = TRUE
    /\ clock = 0
    /\ mcall = NoCall
    /\ sel = NoSel
    /\ router = NoRouter
    /\ cat = NoCat
    /\ lcall = NoLinks
    /\ race = NoRace
    /\ \E env \in Envs :
         /\ main = [NoMain EXCEPT !.pc = "init_database_session", !.env = env]
         /\ world = MainWorld(env)
    /\ now = RESEARCH_FREQUENCY_HOURS
    /\ sites_file = <<UrlLine(A0), UrlLine(I0)>>
    /\ DbEmpty
    /\ OrchIdle("unstarted")
    /\ wk = [k \in Slots |-> IdleWorker]
    /\ HistEmpty

MainNext ==
    \/ InitDatabaseSession
    \/ SetupDatabaseSchema
    \/ SetupMinioClient
    \/ TestMinioConnection
    \/ SetupProxySessions
    \/ GentleI2PInitialization
    \/ StartCycle
    \/ ReadSites
    \/ BeginRound
    \/ CycleDone
    \/ SubmitBatch
    \/ \E k \in Slots : Worker(k)
    \/ \E k \in Slots : Collect(k)
    \/ EndBatch
    \/ EndRound
    \/ EndCycle
    \/ WakeUp
    \/ Interrupt
    \/ Close
    \/ Exit

SpecMain == MainInit /\ [][MainNext]_vars

----------------------------------------------------------------------------
(* SpecRouter: the gentle I2P initialization of __init__ (249-270),        *)
(* _only_restart_if_truly_broken, _gentle_i2p_restart, _patient_i2p_wait   *)

\* the health probes one patient wait has time for
MaxProbes == 2

\* mcp_engine.py 2402: for i in range(15)
shutdown_polls == 15

\* mcp_engine.py 2381: if minutes > 20
restart_minutes == 20

\* mcp_engine.py 1926-1985: a probe fails when no router process is detected;
\* with a process, the console answers or does not (and a router that was
\* told to end is still there, or is not).  Then the probe results one
\* patient wait may see, in order
HealthChecks(alive) == IF alive THEN BOOLEAN ELSE {FALSE}
ProbeRuns(alive) == [1..MaxProbes -> HealthChecks(alive)]

\* mcp_engine.py 1995-2021: the loop of _patient_i2p_wait over the probes that
\* fit into max_wait; last_status is <<>> for None.  (The branch of lines
\* 2011-2016 needs current_status true and equal to last_status, which the
\* return of line 2004 excludes.)
RECURSIVE patient_wait_from(_, _, _)
patient_wait_from(probes, j, last_status) ==
    IF j > Len(probes) THEN FALSE
    ELSE LET current_status == probes[j] IN
         IF <<current_status>> # last_status /\ current_status THEN TRUE
         ELSE patient_wait_from(probes, j + 1, <<current_status>>)

patient_i2p_wait(probes) == patient_wait_from(probes, 1, <<>>)

\* the else branch of the polling loop taken also after a break
loop_else_runs_always(broke) == TRUE

\* mcp_engine.py 2402-2411: the else branch of `for i in range(15)` runs when
\* the loop ended without break
loop_else_runs(broke) == ~broke

\* mcp_engine.py 2355-2388: the restart is decided.  No process detected:
\* restart.  Otherwise the minutes read from the output of ps decide.
restart_decided(alive, minutes) == ~alive \/ minutes > restart_minutes

\* how the gentle initialization ends: self.i2p_working is assigned
RouterDone(value) ==
    /\ router' = [router EXCEPT !.pc = "done", !.result = value]
    /\ i2p_working' = value

RouterSame ==
    UNCHANGED <<ENABLE_TOR, ENABLE_I2P, DOWNLOAD_ALL_MEDIA, world, now, clock, sites_file,
                sel, mcall, main, cat, lcall, race, dbVars, orchVars, wk, histVars>>

\* mcp_engine.py 253-257
FirstHealthCheck ==
    /\ router.pc = "health_check"
    /\ \E healthy \in HealthChecks(router.alive) :
         IF healthy
         THEN RouterDone(TRUE)
         ELSE /\ router' = [router EXCEPT !.pc = "patient_wait"]
              /\ UNCHANGED i2p_working
    /\ RouterSame

\* mcp_engine.py 260-265: self._patient_i2p_wait(max_minutes=8)
PatientWait ==
    /\ router.pc = "patient_wait"
    /\ \E probes \in ProbeRuns(router.alive) :
         IF patient_i2p_wait(probes)
         THEN RouterDone(TRUE)
         ELSE /\ router' = [router EXCEPT !.pc = "only_restart_if_truly_broken"]
              /\ UNCHANGED i2p_working
    /\ RouterSame

\* mcp_engine.py 2350-2352: the patient wait of _only_restart_if_truly_broken
PatientWaitAgain ==
    /\ router.pc = "only_restart_if_truly_broken"
    /\ \E probes \in ProbeRuns(router.alive) :
         IF patient_i2p_wait(probes)
         THEN RouterDone(TRUE)
         ELSE /\ router' = [router EXCEPT !.pc = "is_process_running"]
              /\ UNCHANGED i2p_working
    /\ RouterSame

\* mcp_engine.py 2355-2388, 268-270
DecideRestart ==
    /\ router.pc = "is_process_running"
    /\ IF restart_decided(router.alive, router.ps_minutes)
       THEN /\ router' = [router EXCEPT !.pc = "gentle_restart", !.alive_at_decision = router.alive]
            /\ UNCHANGED i2p_working
       ELSE RouterDone(FALSE)
    /\ RouterSame

\* mcp_engine.py 2399: pkill -TERM -f i2pd
SendTerm ==
    /\ router.pc = "gentle_restart"
    /\ router' = [router EXCEPT !.pc = "polling", !.log = Append(@, "TERM")]
    /\ UNCHANGED i2p_working
    /\ RouterSame

\* mcp_engine.py 2402-2406: one poll of _is_i2p_process_running; a router
\* that was told to end may have ended by now
Poll ==
    /\ router.pc = "polling"
    /\ router.polls < shutdown_polls
    /\ \E still \in HealthChecks(router.alive) :
         router' = [router EXCEPT
                      !.alive = still,
                      !.polls = @ + 1,
                      !.broke = ~still,
                      !.pc = IF ~still \/ router.polls + 1 = shutdown_polls
                             THEN "after_loop" ELSE "polling"]
    /\ UNCHANGED i2p_working
    /\ RouterSame

\* mcp_engine.py 2407-2411: pkill -KILL -f i2pd, if the loop was not left
AfterLoop ==
    /\ router.pc = "after_loop"
    /\ router' = IF loop_else_runs(router.broke)
                 THEN [router EXCEPT !.pc = "spawn", !.log = Append(@, "KILL"),
                                     !.alive = FALSE]
                 ELSE [router EXCEPT !.pc = "spawn"]
    /\ UNCHANGED i2p_working
    /\ RouterSame

\* mcp_engine.py 2415-2422, 2426-2428: subprocess.Popen(["i2pd", ...]); when
\* it raises, the restart returns False
Spawn ==
    /\ router.pc = "spawn"
    /\ IF router.spawn_ok
       THEN /\ router' = [router EXCEPT !.pc = "wait_after_spawn", !.log = Append(@, "spawn"),
                                        !.alive = TRUE]
            /\ UNCHANGED i2p_working
       ELSE RouterDone(FALSE)
    /\ RouterSame

\* mcp_engine.py 2424, 265-270: return self._patient_i2p_wait(max_minutes=8)
WaitAfterSpawn ==
    /\ router.pc = "wait_after_spawn"
    /\ \E probes \in ProbeRuns(router.alive) :
         /\ router' = [router EXCEPT !.pc = "done", !.result = patient_i2p_wait(probes),
                                     !.probes_after_spawn = probes]
         /\ i2p_working' = patient_i2p_wait(probes)
    /\ RouterSame

\* what ps printed, as the minutes the code reads from it
PsMinutes == {0, restart_minutes, restart_minutes + 1}

\* how long the router process has been running, in minutes
Uptimes == {5, 25}

RouterInit ==
    /\ ENABLE_TOR = TRUE
    /\ ENABLE_I2P = TRUE
    /\ i2p_working = FALSE
    /\ DOWNLOAD_ALL_MEDIA = TRUE
    /\ clock = 0
    /\ mcall = NoCall
    /\ sel = NoSel
    /\ main = NoMain
    /\ cat = NoCat
    /\ lcall = NoLinks
    /\ race = NoRace
    /\ \E alive \in BOOLEAN, minutes \in PsMinutes, uptime \in Uptimes, spawn_ok \in BOOLEAN :
         router = [pc |-> "health_check", alive |-> alive, uptime |-> uptime,
                   ps_minutes |-> minutes, spawn_ok |-> spawn_ok, alive_at_decision |-> FALSE,
                   log |-> <<>>, polls |-> 0, broke |-> FALSE, probes_after_spawn |-> <<>>,
                   result |-> FALSE]
    /\ world = SilentWorld
    /\ now = 0
    /\ sites_file = <<>>
    /\ DbEmpty
    /\ OrchIdle("unused")
    /\ wk = [k \in Slots |-> IdleWorker]
    /\ HistEmpty

RouterNext ==
    \/ FirstHealthCheck
    \/ PatientWait
    \/ PatientWaitAgain
    \/ DecideRestart
    \/ SendTerm
    \/ Poll
    \/ AfterLoop
    \/ Spawn
    \/ WaitAfterSpawn

SpecRouter == RouterInit /\ [][RouterNext]_vars

----------------------------------------------------------------------------
(* SpecCategorize: _categorize_media_type on every URL and Content-Type   *)

CatPaths == {"/", "/a", "/pic.jpg", "/movie.mp4", "/song.mp3", "/paper.pdf", "/PIC.JPG",
             "/pic.jpg/view.html", "/clip.mp4/poster.png"}
CatUrls == {Url(s, <<"a", "test">>, p) : s \in Schemes, p \in CatPaths}
ContentTypes == {"", "image/jpeg", "image/png", "video/mp4", "audio/mpeg", "application/pdf",
                 "text/html"}

CatInit ==
    /\ ENABLE_TOR = TRUE
    /\ ENABLE_I2P = TRUE
    /\ i2p_working = TRUE
    /\ DOWNLOAD_ALL_MEDIA = TRUE
    /\ clock = 0
    /\ mcall = NoCall
    /\ sel = NoSel
    /\ main = NoMain
    /\ router = NoRouter
    /\ cat \in {[called |-> FALSE, url |-> u, content_type |-> t, result |-> "pending"] :
                   u \in CatUrls, t \in ContentTypes}
    /\ lcall = NoLinks
    /\ race = NoRace
    /\ world = SilentWorld
    /\ now = 0
    /\ sites_file = <<>>
    /\ DbEmpty
    /\ OrchIdle("unused")
    /\ wk = [k \in Slots |-> IdleWorker]
    /\ HistEmpty

Categorize ==
    /\ ~cat.called
    /\ cat' = [cat EXCEPT !.called = TRUE,
                          !.result = categorize_media_type(cat.url, cat.content_type)]
    /\ UNCHANGED <<confVars, sel, mcall, main, router, lcall, race, dbVars, orchVars, wk,
                   histVars>>

CatNext == Categorize

SpecCategorize == CatInit /\ [][CatNext]_vars

----------------------------------------------------------------------------
(* SpecFaults: one worker on a site whose pages may fail to be fetched,   *)
(* with a database and a link extraction that may raise                    *)

\* what one pass of the loop body does to the worker before anything can
\* raise: the entry is popped, its URL is visited, the page is requested
\* (mcp_engine.py 973-985)
requested(w, entry) ==
    [w EXCEPT !.pages_to_crawl = Tail(@),
              !.visited_urls = @ \cup {entry.url},
              !.gets = Append(@, [url |-> entry.url, kind |-> "page",
                                  via |-> page_session(w, entry.url)])]

\* mcp_engine.py 1003-1004, 1029-1032: the commit of the Page row raises; the
\* handler rolls the session back and continues
PageCommitError(k) ==
    /\ wk[k].pc = "loop"
    /\ loop_continues(wk[k])
    /\ LET entry == Head(wk[k].pages_to_crawl) IN
       /\ ~entry_skipped(wk[k], entry)
       /\ \E response \in world[entry.url].page : response.ok
       /\ wk' = [wk EXCEPT ![k] = [requested(@, entry) EXCEPT !.in_transaction = FALSE]]
    /\ UNCHANGED <<confVars, callVars, dbVars, orchVars, histVars>>

\* the Page row and the media of a page that was fetched and committed
\* (mcp_engine.py 994-1013), and the requests of the worker after them
committed(k, entry, media) ==
    LET site == wk[k].site_url
        media_via == get_appropriate_session(entry.url, ENABLE_TOR, ENABLE_I2P, i2p_working)
        stored == download_and_store_media(PageId(site, entry.url, pages), entry.url,
                                           media_via, MediaScenario(media),
                                           media_files, objects, clock)
        w == requested(wk[k], entry)
    IN [pages |-> pages (+) SetToBag({[site |-> site, url |-> entry.url,
                                       depth |-> entry.depth]}),
        media_files |-> stored.rows,
        objects |-> stored.objects,
        worker |-> [w EXCEPT
                      !.gets = IF "get" \in Range(stored.effects)
                               THEN Append(@, [url |-> entry.url, kind |-> "media",
                                               via |-> media_via])
                               ELSE @,
                      !.in_transaction = FALSE,
                      !.seed_stored = @ \/ (entry.url = site /\ entry.depth = 0)]]

\* mcp_engine.py 1016-1017, 1029-1032: _extract_links_from_page raises (urljoin
\* raises ValueError on an href such as "http://["); the Page row is
\* committed, the media pipeline has run, no link is appended, the counter is
\* not incremented
ExtractLinksError(k) ==
    /\ wk[k].pc = "loop"
    /\ loop_continues(wk[k])
    /\ LET entry == Head(wk[k].pages_to_crawl) IN
       /\ ~entry_skipped(wk[k], entry)
       /\ entry.depth < CRAWL_DEPTH
       /\ \E response \in world[entry.url].page, media \in world[entry.url].media :
            LET done == committed(k, entry, media) IN
            /\ response.ok
            /\ wk' = [wk EXCEPT ![k] = done.worker]
            /\ pages' = done.pages
            /\ media_files' = done.media_files
            /\ objects' = done.objects
    /\ UNCHANGED <<confVars, callVars, sites, orchVars, histVars>>

\* mcp_engine.py 1020-1024, 1029-1032: the commit of last_crawled raises; the
\* Page row is committed, the links are appended, the counter is incremented;
\* the rollback drops the new last_crawled
LastCrawledCommitError(k) ==
    /\ wk[k].pc = "loop"
    /\ loop_continues(wk[k])
    /\ LET entry == Head(wk[k].pages_to_crawl) IN
       /\ ~entry_skipped(wk[k], entry)
       /\ \E response \in world[entry.url].page, media \in world[entry.url].media :
            LET done == committed(k, entry, media)
                new_links == IF entry.depth < CRAWL_DEPTH
                             THEN extract_links_from_page(response.hrefs, entry.url)
                             ELSE {}
            IN
            /\ response.ok
            /\ \E order \in Orders(new_links) :
                 wk' = [wk EXCEPT ![k] =
                     [done.worker EXCEPT
                        !.pages_to_crawl =
                            @ \o [j \in 1..Len(order) |->
                                    [url |-> order[j],
                                     depth |-> child_depth(entry.depth),
                                     parent_depth |-> entry.depth]],
                        !.pages_crawled = @ + 1]]
            /\ pages' = done.pages
            /\ media_files' = done.media_files
            /\ objects' = done.objects
    /\ UNCHANGED <<confVars, callVars, sites, orchVars, histVars>>

\* the seed always answers, with links to itself, to /a and to another host;
\* every other page answers or fails
FaultWorld ==
    [u \in Urls |->
        [page |-> IF u \in SiteUrls
                  THEN {Document({Rel("/"), Rel("/a"), B0})}
                  ELSE {ErrorResponse, Document({Rel("/")})},
         media |-> {"stored"}]]

FaultsInit ==
    /\ ENABLE_TOR = TRUE
    /\ ENABLE_I2P = TRUE
    /\ i2p_working = TRUE
    /\ DOWNLOAD_ALL_MEDIA = TRUE
    /\ clock = 0
    /\ mcall = NoCall
    /\ main = NoMain
    /\ router = NoRouter
    /\ cat = NoCat
    /\ lcall = NoLinks
    /\ race = NoRace
    /\ sel = NoSel
    /\ world = FaultWorld
    /\ now = RESEARCH_FREQUENCY_HOURS
    /\ sites_file = <<>>
    /\ DbEmpty
    /\ OrchIdle("unused")
    /\ \E seed \in SiteUrls :
         wk = [k \in Slots |-> IF k = 1 THEN [IdleWorker EXCEPT !.pc = "queued",
                                                                !.site_url = seed]
                               ELSE IdleWorker]
    /\ HistEmpty

FaultsNext ==
    \/ Worker(1)
    \/ PageCommitError(1)
    \/ ExtractLinksError(1)
    \/ LastCrawledCommitError(1)

SpecFaults == FaultsInit /\ [][FaultsNext]_vars

----------------------------------------------------------------------------
(* SpecLinks: _extract_links_from_page on every set of anchors             *)

LinkHrefs == Hrefs \cup {EmptyHref, FragmentHref, Javascript, Tel}

LinksInit ==
    /\ ENABLE_TOR = TRUE
    /\ ENABLE_I2P = TRUE
    /\ i2p_working = TRUE
    /\ DOWNLOAD_ALL_MEDIA = TRUE
    /\ clock = 0
    /\ mcall = NoCall
    /\ sel = NoSel
    /\ main = NoMain
    /\ router = NoRouter
    /\ cat = NoCat
    /\ race = NoRace
    /\ lcall \in {[called |-> FALSE, base_url |-> b, hrefs |-> h, result |-> {}] :
                     b \in {A0, A1}, h \in SUBSET LinkHrefs}
    /\ world = SilentWorld
    /\ now = 0
    /\ sites_file = <<>>
    /\ DbEmpty
    /\ OrchIdle("unused")
    /\ wk = [k \in Slots |-> IdleWorker]
    /\ HistEmpty

ExtractLinks ==
    /\ ~lcall.called
    /\ lcall' = [lcall EXCEPT !.called = TRUE,
                              !.result = extract_links_from_page(lcall.hrefs, lcall.base_url)]
    /\ UNCHANGED <<confVars, sel, mcall, main, router, cat, race, dbVars, orchVars, wk,
                   histVars>>

LinksNext == ExtractLinks

SpecLinks == LinksInit /\ [][LinksNext]_vars

----------------------------------------------------------------------------
(* SpecRace: get_or_create_site called by the workers of one batch, each   *)
(* in its own thread and session, again and again                          *)

\* the calls one worker thread makes, one per round in which its site is dispatched
MaxRounds == 2

\* an INSERT that is accepted whatever the table holds
unique_index_admits_always(rows, url) == TRUE

\* db_models.py 28: url = Column(String(255), unique=True, nullable=False);
\* the INSERT of a second row of that url is refused
unique_index_admits(rows, url) == \A r \in rows : r.url # url

\* the rows of sites of one url
SitesOf(rows, url) == {r \in rows : r.url = url}

RaceSame ==
    UNCHANGED <<confVars, sel, mcall, main, router, cat, lcall, dbVars, orchVars, wk, histVars>>

\* mcp_engine.py 956, 776-787: the worker calls get_or_create_site(site_url)
CallGetOrCreate(c) ==
    /\ race.callers[c].pc \in {"idle", "returned", "raised"}
    /\ race.callers[c].calls < MaxRounds
    /\ race' = [race EXCEPT !.callers[c] =
                   [@ EXCEPT !.pc = "query", !.calls = @ + 1, !.found = {}, !.result = 0]]
    /\ RaceSame

\* mcp_engine.py 790: session.query(Site).filter_by(url=url).first()
QuerySite(c) ==
    /\ race.callers[c].pc = "query"
    /\ race' = [race EXCEPT !.callers[c] =
                   [@ EXCEPT !.pc = "queried", !.found = SitesOf(race.rows, race.callers[c].url)]]
    /\ RaceSame

\* mcp_engine.py 792-800, 806-809: no row was found; the new row is added and
\* committed; when the database refuses it, the session is rolled back and
\* the exception raised again
AddSite(c) ==
    /\ race.callers[c].pc = "queried"
    /\ race.callers[c].found = {}
    /\ LET url == race.callers[c].url
           id == Cardinality(race.rows) + 1
       IN IF unique_index_admits(race.rows, url)
          THEN race' = [race EXCEPT !.rows = @ \cup {[id |-> id, url |-> url]},
                                    !.callers[c] = [@ EXCEPT !.pc = "returned",
                                                             !.result = id]]
          ELSE race' = [race EXCEPT !.callers[c] = [@ EXCEPT !.pc = "raised"]]
    /\ RaceSame

\* mcp_engine.py 801-804: the row found is returned
ReturnSite(c) ==
    /\ race.callers[c].pc = "queried"
    /\ race.callers[c].found # {}
    /\ \E row \in race.callers[c].found :
         race' = [race EXCEPT !.callers[c] = [@ EXCEPT !.pc = "returned",
                                                       !.result = row.id]]
    /\ RaceSame

RaceInit ==
    /\ ENABLE_TOR = TRUE
    /\ ENABLE_I2P = TRUE
    /\ i2p_working = TRUE
    /\ DOWNLOAD_ALL_MEDIA = TRUE
    /\ clock = 0
    /\ mcall = NoCall
    /\ sel = NoSel
    /\ main = NoMain
    /\ router = NoRouter
    /\ cat = NoCat
    /\ lcall = NoLinks
    /\ \E urls \in [Slots -> SiteUrls] :
         race = [pc |-> "running", rows |-> {},
                 callers |-> [c \in Slots |->
                                [pc |-> "idle", url |-> urls[c], calls |-> 0, found |-> {},
                                 result |-> 0]]]
    /\ world = SilentWorld
    /\ now = 0
    /\ sites_file = <<>>
    /\ DbEmpty
    /\ OrchIdle("unused")
    /\ wk = [k \in Slots |-> IdleWorker]
    /\ HistEmpty

RaceNext ==
    \E c \in Slots :
       \/ CallGetOrCreate(c)
       \/ QuerySite(c)
       \/ AddSite(c)
       \/ ReturnSite(c)

SpecRace == RaceInit /\ [][RaceNext]_vars

----------------------------------------------------------------------------
(* SpecGraph: one worker on a site whose pages link to each other, the     *)
(* same way at every request                                               *)

\* the anchors of the pages: / links to itself, to /a, to /b and to another
\* host; /a links to /b and back to /; /b links to /a
GraphContent(url) ==
    IF url.path = "/" THEN {Rel("/"), Rel("/a"), Rel("/b"), B0}
    ELSE IF url.path = "/a" THEN {Rel("/b"), Rel("/")}
    ELSE {Rel("/a")}

\* the pages of the sites answer; the other host does not
GraphWorld ==
    [u \in Urls |->
        [page |-> IF u.host = <<"other", "test">>
                  THEN {ErrorResponse}
                  ELSE {Document(GraphContent(u))},
         media |-> {"stored"}]]

GraphInit ==
    /\ ENABLE_TOR = TRUE
    /\ ENABLE_I2P = TRUE
    /\ i2p_working = TRUE
    /\ DOWNLOAD_ALL_MEDIA = TRUE
    /\ clock = 0
    /\ mcall = NoCall
    /\ main = NoMain
    /\ router = NoRouter
    /\ cat = NoCat
    /\ lcall = NoLinks
    /\ race = NoRace
    /\ sel = NoSel
    /\ world = GraphWorld
    /\ now = RESEARCH_FREQUENCY_HOURS
    /\ sites_file = <<>>
    /\ DbEmpty
    /\ OrchIdle("unused")
    /\ \E seed \in SiteUrls :
         wk = [k \in Slots |-> IF k = 1 THEN [IdleWorker EXCEPT !.pc = "queued",
                                                                !.site_url = seed]
                               ELSE IdleWorker]
    /\ HistEmpty

GraphNext == Worker(1)

SpecGraph == GraphInit /\ [][GraphNext]_vars

----------------------------------------------------------------------------
(* Claims *)

HostClass(url) ==
    IF endswith(hostname(url), "onion") THEN "onion"
    ELSE IF endswith(hostname(url), "i2p") THEN "i2p"
    ELSE "other"

SelDone == sel.called /\ sel.result \notin {"pending", "unused"}

\* the transport the claim names for .onion and .i2p hostnames
SpecifiedOverlay(class, enable_tor, enable_i2p, healthy) ==
    IF class = "onion" THEN (IF enable_tor THEN "tor" ELSE "none")
    ELSE IF enable_i2p /\ healthy THEN "i2p"
    ELSE IF enable_tor THEN "tor"
    ELSE "none"

\* C1, as amended: get_appropriate_session is a function of the hostname suffix
\* and of ENABLE_TOR, ENABLE_I2P and the I2P health flag alone: .onion gives Tor
\* if Tor is enabled and none otherwise; .i2p gives I2P if I2P is enabled and
\* healthy, else Tor if Tor is enabled, else none; every other hostname gives
\* Tor if Tor is enabled and none otherwise; it never gives a direct transport.
C1_SelectionAsAmended ==
    SelDone =>
        /\ sel.result \in {"tor", "i2p", "none"}
        /\ sel.result =
             IF HostClass(sel.url) = "other"
             THEN (IF ENABLE_TOR THEN "tor" ELSE "none")
             ELSE SpecifiedOverlay(HostClass(sel.url), ENABLE_TOR, ENABLE_I2P, i2p_working)

\* C1 witness: an .i2p hostname, I2P enabled but not healthy, Tor enabled: the
\* call has returned the Tor fallback
C1_Witness ==
    /\ SelDone
    /\ HostClass(sel.url) = "i2p"
    /\ ENABLE_I2P /\ ~i2p_working /\ ENABLE_TOR
    /\ sel.result = "tor"

\* C1 as stated: as above, but every hostname that is neither .onion nor .i2p
\* gives Tor under every flag combination
C1_SelectionAsStated ==
    SelDone =>
        /\ sel.result \in {"tor", "i2p", "none"}
        /\ sel.result =
             IF HostClass(sel.url) = "other"
             THEN "tor"
             ELSE SpecifiedOverlay(HostClass(sel.url), ENABLE_TOR, ENABLE_I2P, i2p_working)

\* C2 as stated: every page GET of a site crawl goes through the transport
\* that get_appropriate_session returns for the URL of that page
C2_PageGetThroughOwnTransport ==
    \A k \in Slots : \A j \in DOMAIN wk[k].gets :
        wk[k].gets[j].kind = "page" =>
            wk[k].gets[j].via = get_appropriate_session(wk[k].gets[j].url, ENABLE_TOR,
                                                        ENABLE_I2P, i2p_working)

ListedOnce(site) == Occurrences(read_sites(sites_file), site) = 1

PagesOfSite(site) ==
    LET rows == {r \in BagToSet(pages) : r.site = site}
    IN BagCardinality([r \in rows |-> pages[r]])

SeedRow(site) == [site |-> site, url |-> site, depth |-> 0]

\* C3 as stated: only failed sites enter the retry queue; a site (named once
\* in the sites file) whose worker stored its seed and completed its loop is
\* dispatched once in the cycle, which leaves one Page row for the seed
C3_SucceededSiteDispatchedOnce ==
    \A site \in succeeded :
        ListedOnce(site) =>
            /\ site \notin Range(retry_queue)
            /\ dispatched[site] = 1
            /\ CopiesIn(SeedRow(site), pages) = 1

\* C4 as stated: the failure counter of a site never exceeds MAX_SITE_RETRIES,
\* and an abandoned site is not queued for another dispatch in the cycle
C4_AbandonedAtMaxRetries ==
    \A site \in SiteUrls :
        /\ site_failure_counts[site] <= max_retries
        /\ site \in Range(failed_sites) =>
             /\ site \notin Range(retry_queue)
             /\ opc = "for" =>
                  \A j \in DOMAIN working_queue : j > batch_start => working_queue[j] # site

C6_PageCapPerCycle ==
    \A site \in SiteUrls : ListedOnce(site) => PagesOfSite(site) <= MAX_PAGES_PER_SITE

\* C7: every Page row has 0 <= depth <= CRAWL_DEPTH, a row of the seed URL has
\* depth 0, the first frontier entry is the seed at depth 0 and every other
\* frontier entry has the depth of the page it was found on plus one
C7_DepthCap ==
    /\ \A row \in BagToSet(pages) :
         /\ 0 <= row.depth /\ row.depth <= CRAWL_DEPTH
         /\ row.url = row.site => row.depth = 0
    /\ \A k \in Slots : \A j \in DOMAIN wk[k].pages_to_crawl :
         LET entry == wk[k].pages_to_crawl[j] IN
         IF entry.parent_depth < 0
         THEN entry.depth = 0 /\ entry.url = wk[k].site_url
         ELSE entry.depth = entry.parent_depth + 1

\* C7 witness: a crawl has ended that stored a page at depth CRAWL_DEPTH,
\* found on a page one level up
C7_Witness ==
    \E k \in Slots :
        /\ wk[k].pc = "returned"
        /\ \E row \in BagToSet(pages) : row.depth = CRAWL_DEPTH /\ row.url # row.site

\* C8 as stated: no URL is the target of two GETs of one site crawl
C8_NoUrlFetchedTwice ==
    \A k \in Slots : \A j1, j2 \in DOMAIN wk[k].gets :
        j1 # j2 => wk[k].gets[j1].url # wk[k].gets[j2].url

\* the registered domain of a hostname: its last two labels
registered_domain(url) ==
    LET h == hostname(url) IN
    IF Len(h) <= 2 THEN h ELSE SubSeq(h, Len(h) - 1, Len(h))

\* C9 as stated: no URL outside the seed's registered domain is enqueued,
\* fetched or stored in a site crawl
C9_ExternalLinksNotFollowed ==
    /\ \A k \in Slots :
         /\ \A j \in DOMAIN wk[k].pages_to_crawl :
              registered_domain(wk[k].pages_to_crawl[j].url) = registered_domain(wk[k].site_url)
         /\ \A j \in DOMAIN wk[k].gets :
              registered_domain(wk[k].gets[j].url) = registered_domain(wk[k].site_url)
    /\ \A row \in BagToSet(pages) :
         registered_domain(row.url) = registered_domain(row.site)

\* C10 as stated: a site whose last_crawled, when the cycle begins, lies
\* within RESEARCH_FREQUENCY_HOURS of the current time is not dispatched in
\* that cycle
C10_RecentlyCrawledSitesSkipped ==
    \A site \in SiteUrls :
        (/\ ~last_crawled_at_start[site].null
         /\ now - last_crawled_at_start[site].at < RESEARCH_FREQUENCY_HOURS)
        => dispatched[site] = 0

\* C11: at most PARALLEL_SITES site workers are alive at a time, they are the
\* workers of the current batch, and whenever crawl_sites is not collecting a
\* batch (so whenever it is about to submit the next one) no worker is
\* alive: every worker of the previous batch has returned and been collected.
C11_BoundedParallelism ==
    /\ Cardinality({k \in Slots : wk[k].pc # "idle"}) <= PARALLEL_SITES
    /\ opc \in {"read_sites", "while", "for", "done"} => \A k \in Slots : wk[k].pc = "idle"
    /\ opc = "collect" =>
         \A k \in Slots :
             wk[k].pc # "idle" =>
                 /\ batch_start + k <= Len(working_queue)
                 /\ working_queue[batch_start + k] = wk[k].site_url

\* C11 witness: the second batch of a round is running after a first batch
\* of PARALLEL_SITES workers
C11_Witness ==
    /\ opc = "collect"
    /\ batch_start = PARALLEL_SITES
    /\ \E k \in Slots : wk[k].pc = "loop"

\* the last invocation got an answer to its GET
CallAnswered == mcall.n > 0 /\ mcall.effects # <<>> /\ mcall.response.get_ok

\* the cap C of the category of the last invocation's media
CallCap ==
    get_size_limit_for_media_type(
        categorize_media_type(mcall.url, mcall.response.content_type))

\* the answer advertises more than the cap, or its body is longer than the cap
CallOverCap ==
    \/ mcall.response.content_length.present /\ mcall.response.content_length.value > CallCap
    \/ mcall.response.body > CallCap

\* C12: when the answer to the media GET advertises a Content-Length above the
\* cap of the media's category, or its body is longer than the cap, the
\* invocation uploads nothing, inserts no MediaFile row, returns False and
\* leaves object store and table as they were.
C12_MediaSizeCap ==
    (CallAnswered /\ CallOverCap) =>
        /\ mcall.result = FALSE
        /\ mcall.effects = <<"get">>
        /\ media_files = mcall.rows_before
        /\ objects = mcall.objects_before

\* C12 witness: an image whose body is one byte over MAX_IMAGE_SIZE, sent
\* without a Content-Length header, has been refused
C12_Witness ==
    /\ CallAnswered
    /\ mcall.url = PicUrl
    /\ ~mcall.response.content_length.present
    /\ mcall.response.body = MAX_IMAGE_SIZE + 1
    /\ mcall.result = FALSE

\* the object a MediaFile row points to, if the object store holds it
ObjectsOf(row) ==
    {o \in objects : o.bucket = row.minio_bucket /\ o.name = row.minio_object_name}

\* C13 as stated: every MediaFile row with size_bytes > 1,048,576 has no
\* inline content, and its bucket and object name resolve to an object of
\* exactly size_bytes bytes
C13_LargeMediaInObjectStore ==
    \A row \in BagToSet(media_files) :
        row.size_bytes > INLINE_LIMIT =>
            /\ row.content = "null"
            /\ \E o \in ObjectsOf(row) : o.size = row.size_bytes

\* C14: every MediaFile row points to a bucket and object name whose upload
\* has completed; within an invocation the insert comes after the completed
\* upload, and an invocation whose upload fails returns False and inserts no row.
C14_RowOnlyAfterUpload ==
    /\ \A row \in BagToSet(media_files) : ObjectsOf(row) # {}
    /\ \A j \in DOMAIN mcall.effects :
         mcall.effects[j] = "insert" => \E i \in 1..(j - 1) : mcall.effects[i] = "put"
    /\ "put_failed" \in Range(mcall.effects) =>
         /\ mcall.result = FALSE
         /\ media_files = mcall.rows_before
         /\ objects = mcall.objects_before

\* C14 witness: an invocation whose upload failed has returned
C14_Witness ==
    /\ mcall.n > 0
    /\ ~mcall.response.put_ok
    /\ "put_failed" \in Range(mcall.effects)
    /\ mcall.result = FALSE

RowsOfPair(page_id, url) ==
    LET rows == {r \in BagToSet(media_files) : r.page_id = page_id /\ r.url = url}
    IN BagCardinality([r \in rows |-> media_files[r]])

\* C15: no two MediaFile rows have the same page_id and url, and an invocation
\* for a pair that is already stored returns True without a GET, an upload
\* or an insert, leaving table and object store as they were.
C15_NoDuplicatePair ==
    /\ \A row \in BagToSet(media_files) : RowsOfPair(row.page_id, row.url) = 1
    /\ (mcall.n > 0 /\ mcall.existed) =>
         /\ mcall.result = TRUE
         /\ mcall.effects = <<>>
         /\ media_files = mcall.rows_before
         /\ objects = mcall.objects_before

\* C15 witness: the second invocation for a stored pair has been skipped
C15_Witness ==
    /\ mcall.n > 1
    /\ mcall.existed
    /\ mcall.response.get_ok /\ mcall.response.put_ok /\ mcall.response.insert = "ok"
    /\ RowsOfPair(mcall.page_id, mcall.url) = 1

\* the media GETs of worker k for the URL url
MediaGets(k, url) ==
    Cardinality({j \in DOMAIN wk[k].gets :
                    wk[k].gets[j].kind = "media" /\ wk[k].gets[j].url = url})

\* C16 as stated: with DOWNLOAD_ALL_MEDIA set, for every page the worker has
\* stored the media pipeline has been invoked once for each media reference
\* of the page, with the reference's URL, and every MediaFile row is the row
\* of a media reference of its page (here the JPEG, of category image)
C16_MediaPerReference ==
    DOWNLOAD_ALL_MEDIA =>
        /\ \A k \in Slots : \A row \in BagToSet(pages) :
             (wk[k].pc # "idle" /\ wk[k].site_url = row.site) =>
                 \A ref \in Images : MediaGets(k, urljoin(row.url, ref)) = 1
        /\ \A row \in BagToSet(media_files) :
             /\ \E ref \in Images : row.url = urljoin(row.page_id.url, ref)
             /\ row.media_category = "image"

\* C17 as stated: with DOWNLOAD_ALL_MEDIA = false a crawl issues no media
\* download request, uploads no object and creates no MediaFile row
C17_MediaPipelineSwitchedOff ==
    ~DOWNLOAD_ALL_MEDIA =>
        /\ \A k \in Slots : \A j \in DOMAIN wk[k].gets : wk[k].gets[j].kind # "media"
        /\ objects = {}
        /\ media_files = EmptyBag

\* C18 as stated: a worker that has returned reports success exactly when it
\* fetched and stored its seed, and the orchestrator counts that success
C18_WorkerOutcome ==
    /\ \A k \in Slots :
         wk[k].pc = "returned" => (truthy(future_result(wk[k])) <=> wk[k].seed_stored)
    /\ succeeded # {} => success_count > 0

\* C19 as stated: while the first crawl of a site in a cycle is in progress,
\* the site's last_crawled is what it was when the cycle began
C19_LastCrawledOnlyOnCompletion ==
    \A k \in Slots :
        (/\ wk[k].pc = "loop"
         /\ ListedOnce(wk[k].site_url)
         /\ dispatched[wk[k].site_url] = 1)
        => sites[wk[k].site_url].last_crawled = last_crawled_at_start[wk[k].site_url]

\* no worker of the cycle has fetched the seed of the site
SeedNeverFetched(site) ==
    /\ site \notin succeeded
    /\ \A k \in Slots : wk[k].site_url = site => ~wk[k].seed_stored

Listed(site) == Occurrences(read_sites(sites_file), site) > 0

MediaOfSite(site) == {row \in BagToSet(media_files) : row.page_id.site = site}

\* C20: a site whose seed no worker of the cycle could fetch has no Page row
\* and no MediaFile row and its last_crawled is what it was when the cycle
\* began; when the cycle ends the site has failed at least MAX_SITE_RETRIES
\* dispatches and is abandoned, and the cycle has gone on to its end: both
\* queues are empty and every site of the file has been dispatched.
C20_UnfetchableSeed ==
    /\ \A site \in SiteUrls :
         (opc # "read_sites" /\ SeedNeverFetched(site)) =>
             /\ PagesOfSite(site) = 0
             /\ MediaOfSite(site) = {}
             /\ sites[site].last_crawled = last_crawled_at_start[site]
             /\ (opc = "done" /\ Listed(site)) =>
                  /\ dispatched[site] >= max_retries
                  /\ site \in Range(failed_sites)
    /\ opc = "done" =>
         /\ working_queue = <<>> /\ retry_queue = <<>>
         /\ \A site \in SiteUrls : Listed(site) => dispatched[site] > 0

\* C20 witness: the site whose seed never answered has been abandoned, and a
\* worker of a later batch is crawling another site
C20_Witness ==
    /\ Listed(I0) /\ SeedNeverFetched(I0)
    /\ I0 \in Range(failed_sites)
    /\ batch_start > 0
    /\ \E k \in Slots : wk[k].pc = "loop" /\ wk[k].site_url = A0 /\ wk[k].seed_stored

\* no site worker has been dispatched, no page or media request has been
\* issued, nothing has been stored
NothingCrawled ==
    /\ opc = "unstarted"
    /\ \A u \in SiteUrls : dispatched[u] = 0
    /\ \A k \in Slots : wk[k] = IdleWorker
    /\ pages = EmptyBag
    /\ media_files = EmptyBag
    /\ objects = {}

\* C21: with ENABLE_TOR unset the constructor never returns a crawler: the
\* process is in the constructor or has ended; when it has ended it ended on
\* an exception raised in the constructor, with a non-zero exit code; no site
\* worker was dispatched and no page or media request was issued.
C21_TorDisabledRefusesStart ==
    ~ENABLE_TOR =>
        /\ ~main.crawler
        /\ main.pc \in {"init_database_session", "setup_database_schema", "setup_minio_client",
                        "test_minio_connection", "setup_proxy_sessions", "exited"}
        /\ main.pc = "exited" => (main.error # "none" /\ main.exit_code # 0)
        /\ NothingCrawled

\* C21 witness: database and object store are in order, Tor is disabled, and
\* the process has ended on the RuntimeError of _setup_proxy_sessions
C21_Witness ==
    /\ ~ENABLE_TOR
    /\ main.env.db_ok /\ main.env.schema_ok /\ main.env.credentials
    /\ main.pc = "exited"
    /\ main.error = "RuntimeError: Tor must be enabled for privacy compliance"
    /\ main.exit_code = 1

\* C22 as stated: when the database does not answer, or the buckets of the
\* object store cannot be created, the constructor returns no crawler, the
\* process ends with a non-zero exit code and no crawl cycle is started
C22_InitializationFailureFatal ==
    (~main.env.db_ok \/ ~main.env.buckets_ok) =>
        /\ ~main.crawler
        /\ main.pc = "exited" => main.exit_code # 0
        /\ NothingCrawled

\* C23 as stated: once main has handled the interrupt, no worker's database
\* session holds an open transaction, and every MediaFile row points to an
\* object whose upload has completed
C23_OrderlyShutdown ==
    main.interrupted =>
        /\ \A k \in Slots : ~wk[k].in_transaction
        /\ \A row \in BagToSet(media_files) : ObjectsOf(row) # {}

\* C24 as stated: a process that was interrupted during a crawl cycle or
\* during the sleep between two cycles ends with its resources released and
\* with exit code 0
C24_CooperativeShutdown ==
    (main.interrupted /\ main.pc = "exited") =>
        /\ main.released
        /\ main.exit_code = 0

\* C25 as stated: two workers of a batch that crawl different sites have
\* disjoint visited sets, and every Page row carries the site of a worker
\* that was dispatched for it
C25_WorkersShareNothing ==
    /\ \A j, k \in Slots :
         (/\ j # k
          /\ wk[j].pc # "idle" /\ wk[k].pc # "idle"
          /\ wk[j].site_url # wk[k].site_url)
         => wk[j].visited_urls \cap wk[k].visited_urls = {}
    /\ \A row \in BagToSet(pages) : Listed(row.site)

\* C26 as stated: the Site row created for a URL has is_onion exactly when
\* the URL's hostname ends in .onion and is_i2p exactly when it ends in .i2p,
\* never both, and with every transport up the I2P transport is selected for
\* the URL exactly when the row says is_i2p
C26_SiteFlagsFollowHostname ==
    sel.site.present =>
        /\ sel.site.is_onion <=> HostClass(sel.url) = "onion"
        /\ sel.site.is_i2p <=> HostClass(sel.url) = "i2p"
        /\ ~(sel.site.is_onion /\ sel.site.is_i2p)
        /\ (SelDone /\ ENABLE_TOR /\ ENABLE_I2P /\ i2p_working) =>
               (sel.site.is_i2p <=> sel.result = "i2p")

\* C27 as stated: a shutdown signal is sent, and a router spawned, only when
\* the router process was found alive at the decision and has been running
\* for at least 20 minutes
C27_RestartOnlyWhenStuck ==
    router.log # <<>> =>
        /\ router.alive_at_decision
        /\ router.uptime >= restart_minutes

\* C28: in a gentle restart the first signal is the graceful one; the forced
\* one is sent only after all 15 polls found the router alive, never after a
\* poll found it gone; the router is spawned only after a poll found the old
\* one gone or after the forced signal; and the restart reports ready exactly
\* when a router was spawned and a probe of the patient wait after the spawn
\* succeeded.
C28_RestartOrder ==
    /\ router.log # <<>> => router.log[1] = "TERM"
    /\ \A j \in DOMAIN router.log :
         /\ router.log[j] = "KILL" => (router.polls = shutdown_polls /\ ~router.broke)
         /\ router.log[j] = "spawn" =>
              (router.broke \/ \E i \in 1..(j - 1) : router.log[i] = "KILL")
    /\ (router.pc = "done" /\ router.log # <<>>) =>
         (router.result <=>
              /\ "spawn" \in Range(router.log)
              /\ \E j \in DOMAIN router.probes_after_spawn : router.probes_after_spawn[j])

\* C28 witness: the router outlived 15 polls, was killed, spawned again, and
\* answered a probe of the wait that followed
C28_Witness ==
    /\ router.pc = "done"
    /\ router.log = <<"TERM", "KILL", "spawn">>
    /\ router.polls = shutdown_polls
    /\ router.result = TRUE

\* the document extensions the specification lists
document_exts == {".pdf", ".doc", ".docx", ".txt", ".zip", ".rar"}

\* the reference rule: the extension of the URL's path decides; when it is
\* in no list the Content-Type prefix decides; otherwise other
reference_category(url, content_type) ==
    LET ext == lower_piece(extension(url)) IN
    IF ext \in image_exts THEN "image"
    ELSE IF ext \in video_exts THEN "video"
    ELSE IF ext \in audio_exts THEN "audio"
    ELSE IF ext \in document_exts THEN "document"
    ELSE IF startswith(content_type, "image/") THEN "image"
    ELSE IF startswith(content_type, "video/") THEN "video"
    ELSE IF startswith(content_type, "audio/") THEN "audio"
    ELSE "other"

\* C29 as stated: _categorize_media_type(url, content_type) is the category
\* the reference rule gives, for every URL and Content-Type
C29_CategoryByExtension ==
    (cat.called /\ cat.result # "unused") =>
        cat.result = reference_category(cat.url, cat.content_type)

\* the categories _categorize_media_type can return
Categories == {"image", "video", "audio", "other"}

\* C30 as stated: the first part of the key of every MediaFile row and of
\* every uploaded object is the id of a page, never the name of a category;
\* it is the id of the page that owns the row; rows of different pages have
\* different first parts
C30_ObjectKeyNamesPage ==
    /\ \A o \in objects : o.name.page \notin Categories
    /\ \A row \in BagToSet(media_files) :
         /\ row.minio_object_name.page \notin Categories
         /\ row.minio_object_name.page = row.page_id
    /\ \A r1, r2 \in BagToSet(media_files) :
         r1.page_id # r2.page_id => r1.minio_object_name.page # r2.minio_object_name.page

\* the insert attempts of the last invocation, and those that failed
InsertAttempts == SelectSeq(mcall.effects, LAMBDA e : e \in {"insert", "insert_failed"})
InsertFailures == SelectSeq(mcall.effects, LAMBDA e : e = "insert_failed")

\* C31: an insert that fails as too long while inline bytes were supplied is
\* retried exactly once, with inline bytes null; after a failed retry, or a
\* first failure of any other kind, the table is as before the invocation,
\* the session has no pending changes and the result is an error; the insert
\* is never attempted more than twice
C31_RetryOnceWithoutContent ==
    mcall.n > 0 =>
      /\ Len(InsertAttempts) <= 2
      /\ Len(mcall.attempts) = Len(InsertAttempts)
      /\ Len(InsertFailures) >= 1 =>
           LET too_long_with_bytes == mcall.response.insert = "too_long"
                                        /\ mcall.attempts[1] # "null"
           IN
           /\ too_long_with_bytes => mcall.attempts = <<"bytes", "null">>
           /\ ~too_long_with_bytes => Len(mcall.attempts) = 1
           /\ mcall.pending = {}
           /\ (Len(InsertFailures) = Len(InsertAttempts)) =>
                /\ mcall.result = FALSE
                /\ media_files = mcall.rows_before
           /\ (Len(InsertFailures) < Len(InsertAttempts)) =>
                /\ mcall.result = TRUE
                /\ \E row \in BagToSet(media_files) :
                     /\ row.page_id = mcall.page_id /\ row.url = mcall.url
                     /\ row.content = "null"
                     /\ media_files = mcall.rows_before (+) SetToBag({row})

\* an insert failed as too long with inline bytes, and so did the retry
C31_Witness ==
    /\ mcall.n > 0
    /\ mcall.response.insert = "too_long"
    /\ mcall.attempts = <<"bytes", "null">>
    /\ mcall.effects = <<"get", "put", "insert_failed", "insert_failed">>
    /\ mcall.result = FALSE

\* the pass of worker k over the head of its frontier ends in an error
PageError(k) ==
    FetchError(k) \/ PageCommitError(k) \/ ExtractLinksError(k) \/ LastCrawledCommitError(k)

\* C32 as stated: a pass that ends in an error on a page other than the seed
\* inserts no Page row, appends no link, leaves the counter as it was, keeps
\* the URL in the visited set and goes on with the rest of the frontier
C32_PageErrorLeavesNoTrace ==
    [][\A k \in Slots :
         (PageError(k) /\ Head(wk[k].pages_to_crawl).url # wk[k].site_url) =>
            /\ pages' = pages
            /\ wk'[k].pages_to_crawl = Tail(wk[k].pages_to_crawl)
            /\ wk'[k].pages_crawled = wk[k].pages_crawled
            /\ Head(wk[k].pages_to_crawl).url \in wk'[k].visited_urls
            /\ wk'[k].pc = "loop"]_vars

\* C39 as stated: the page counter of the invocation equals the number of
\* Page rows it has committed, which never exceeds MAX_PAGES_PER_SITE
C39_CounterEqualsCommittedRows ==
    /\ wk[1].pages_crawled = BagCardinality(pages)
    /\ BagCardinality(pages) <= MAX_PAGES_PER_SITE

DocumentOrder == <<Rel("/"), Rel("/a"), B0, Mailto>>

\* the place of the first anchor of a document at base_url that resolves to url
dom_index(url, base_url) ==
    CHOOSE n \in DOMAIN DocumentOrder :
        /\ urljoin(base_url, DocumentOrder[n]) = url
        /\ \A m \in 1..(n - 1) : urljoin(base_url, DocumentOrder[m]) # url

\* C34 as stated: the links of a page stand in the frontier in the order of
\* their first anchors in the document (here for the links of the seed page)
C34_LinksInDocumentOrder ==
    \A k \in Slots :
      LET frontier == wk[k].pages_to_crawl
          seed == wk[k].site_url
      IN \A i, j \in DOMAIN frontier :
           (i < j /\ frontier[i].parent_depth = 0 /\ frontier[j].parent_depth = 0) =>
              dom_index(frontier[i].url, seed) < dom_index(frontier[j].url, seed)

\* the hrefs the specification discards before resolution
discarded_href(href) ==
    \/ href = EmptyHref
    \/ href.scheme \in {"javascript", "mailto", "tel"}
    \/ href = FragmentHref

\* the links the specification keeps: the hrefs not discarded, resolved, and
\* of these the http and https URLs
specified_links(hrefs, base_url) ==
    {u \in {urljoin(base_url, h) : h \in {g \in hrefs : ~discarded_href(g)}} : is_http(u)}

\* C35 as stated: the links extracted are the specified ones, and none of
\* them names the page itself under a URL that differs only by a fragment
C35_HrefsDiscarded ==
    lcall.called =>
      /\ lcall.result = specified_links(lcall.hrefs, lcall.base_url)
      /\ \A u \in lcall.result :
           without_fragment(u) = lcall.base_url => u = lcall.base_url

\* C36: whatever the interleaving of the calls of get_or_create_site, sites
\* never holds two rows of one URL; a call that has returned has returned the
\* id of the one row of its URL; a call that has raised has lost the insert
\* to a row that is there, and has added none
C36_OneSiteRowPerUrl ==
    /\ \A url \in SiteUrls : Cardinality(SitesOf(race.rows, url)) <= 1
    /\ \A c \in Slots :
         LET caller == race.callers[c] IN
         /\ caller.pc = "returned" =>
              SitesOf(race.rows, caller.url) = {[id |-> caller.result, url |-> caller.url]}
         /\ caller.pc = "raised" =>
              /\ Cardinality(SitesOf(race.rows, caller.url)) = 1
              /\ caller.result = 0

\* two calls for one URL have raced: one has returned the row, the other has
\* raised
C36_Witness ==
    \E c1, c2 \in Slots :
       /\ race.callers[c1].url = race.callers[c2].url
       /\ race.callers[c1].pc = "returned"
       /\ race.callers[c2].pc = "raised"

\* C38: as long as every worker returns, crawl_sites comes to the point where
\* the working queue and the retry queue are both empty, and by then every
\* site of the sites list has been dispatched
C38_CycleTerminates ==
    <>(/\ opc = "done"
       /\ working_queue = <<>>
       /\ retry_queue = <<>>
       /\ \A site \in SiteUrls : Listed(site) => dispatched[site] >= 1)

\* the cycle has ended after retry rounds: a site was given up
C38_Witness ==
    /\ opc = "done"
    /\ working_queue = <<>>
    /\ retry_queue = <<>>
    /\ failed_sites # <<>>
    /\ \E site \in SiteUrls : dispatched[site] > 1

\* the URLs whose Page row is stored
StoredUrls == {row.url : row \in BagToSet(pages)}

\* the links of a page, as its server gives them
LinksOf(url) ==
    UNION {extract_links_from_page(response.hrefs, url) :
             response \in {r \in world[url].page : r.ok}}

\* the URLs within d links of the seed, through pages that are stored
RECURSIVE Within(_, _)
Within(seed, d) ==
    IF d = 0 THEN {seed}
    ELSE LET nearer == Within(seed, d - 1) IN
         nearer \cup UNION {LinksOf(u) : u \in nearer \cap StoredUrls}

\* the shortest-link distance from the seed
bfs_depth(seed, url) ==
    CHOOSE d \in 0..(CRAWL_DEPTH + 1) :
        /\ url \in Within(seed, d)
        /\ \A e \in 0..(d - 1) : url \notin Within(seed, e)

====
